---- MODULE Spec2Model ----
(***************************************************************************)
(* XSRN settlement core.                                                   *)
(*                                                                         *)
(* Part 1: the Claim Ledger (contract MerkleDistributor) together with the *)
(* off-chain Merkle Commitment Engine (MerkleGenerator) whose roots and    *)
(* proofs are presented to it.                                             *)
(* Part 2: the Epoch State Machine (contract EpochManager), the settlement *)
(* that links it to the Claim Ledger (EpochService.settleEpoch), and the   *)
(* Receipt Registry (contract ReceiptRegistry).                            *)
(* Part 3: the reward split of the treasury (contract XsrnTreasury) and    *)
(* the bonded attestations with their challenges and arbitration (contract *)
(* AttestationRegistry).                                                   *)
(* Part 4: the MerkleGenerator on its own inputs, and the session keys of  *)
(* contract XsrnSessionManager with the token they spend.                  *)
(*                                                                         *)
(* Time is counted in days, the unit of the epoch durations.               *)
(*                                                                         *)
(* keccak256 is modelled as an injective constructor over structured byte  *)
(* strings (collision-free hash); the byte order of two hashes is the      *)
(* lexicographic order of their serialised terms, one fixed total order.   *)
(***************************************************************************)
EXTENDS Integers, Sequences, FiniteSets, TLC

----------------------------------------------------------------------------
(* Bounds of the model *)

NumAccounts == 2
MaxEpoch == 2
MaxBatch == 2
TreasuryFunds == 4

Accounts == 1..NumAccounts
Epochs == 1..MaxEpoch
Tokens == {"USDC"}
Admin == 0
Callers == {Admin} \cup Accounts
MaxAmount == NumAccounts + 1
ClaimAmounts == 0..MaxAmount

----------------------------------------------------------------------------
(* Hashes and byte strings *)

ZeroHash == <<"zero">>

Keccak256(bytes) == <<"keccak", bytes>>

\* abi.encodePacked(address, uint256): 20 + 32 bytes
EncodePacked(account, amount) == <<"packed", account, amount>>

\* abi.encode(address, uint256): 32 + 32 bytes
AbiEncode(account, amount) == <<"abi", account, amount>>

\* the concatenation of two 32-byte hashes
Concat(a, b) == <<"concat", a, b>>

RECURSIVE Serialize(_)
Serialize(t) ==
    IF t[1] = "zero" THEN <<0>>
    ELSE IF t[1] = "keccak" THEN <<1>> \o Serialize(t[2])
    ELSE IF t[1] = "packed" THEN <<2, t[3], t[2]>>
    ELSE IF t[1] = "abi" THEN <<3, t[3], t[2]>>
    ELSE <<4>> \o Serialize(t[2]) \o Serialize(t[3])

RECURSIVE LexLess(_, _, _)
LexLess(s, t, i) ==
    IF i > Len(s) \/ i > Len(t) THEN Len(s) < Len(t)
    ELSE IF s[i] # t[i] THEN s[i] < t[i]
    ELSE LexLess(s, t, i + 1)

\* a < b on bytes32 values
HashLess(a, b) == LexLess(Serialize(a), Serialize(b), 1)

\* MerkleProof._hashPair / the sorted-pair step of MerkleGenerator.verify
HashPair(a, b) ==
    IF HashLess(a, b) THEN Keccak256(Concat(a, b)) ELSE Keccak256(Concat(b, a))

\* MerkleProof.processProof: fold the proof into the running hash
RECURSIVE ProcessProof(_, _, _)
ProcessProof(proof, computedHash, i) ==
    IF i > Len(proof) THEN computedHash
    ELSE ProcessProof(proof, HashPair(computedHash, proof[i]), i + 1)

\* a leaf that leaves msg.sender out
ContractLeafAmountOnly(account, amount) == Keccak256(EncodePacked(0, amount))

\* the leaf the distributor recomputes for (account, amount)
ContractLeaf(account, amount) == Keccak256(EncodePacked(account, amount))

\* the leaf MerkleGenerator.verify recomputes for (address, amount)
VerifyLeaf(address, amount) == Keccak256(AbiEncode(address, amount))

\* StandardMerkleTree's leaf hash of a value [address, amount]:
\* keccak256(keccak256(abi.encode(types, value)))
StandardLeafHash(address, amount) == Keccak256(Keccak256(AbiEncode(address, amount)))

----------------------------------------------------------------------------
(* The tree of StandardMerkleTree.of / makeMerkleTree, over a sequence of  *)
(* leaf hashes given in value order.                                       *)

\* the leaves kept in value order, unsorted
LeafIndexByPosition(hashes, i) == i - 1

\* position of value i among the leaves sorted by hash (0-based, stable)
LeafIndex(hashes, i) ==
    Cardinality({j \in 1..Len(hashes) :
        \/ HashLess(hashes[j], hashes[i])
        \/ (hashes[j] = hashes[i] /\ j < i)})

\* index in the tree array (0-based) of value i: tree.length - leafIndex - 1
TreeIndex(hashes, i) == (2 * Len(hashes) - 1) - LeafIndex(hashes, i) - 1

\* node k (0-based) of the tree array: the last n nodes are the sorted leaves
\* in reverse, node k above them is hashPair(node 2k+1, node 2k+2)
RECURSIVE TreeNode(_, _)
TreeNode(hashes, k) ==
    IF k >= Len(hashes) - 1
    THEN LET i == CHOOSE i \in 1..Len(hashes) : TreeIndex(hashes, i) = k
         IN hashes[i]
    ELSE HashPair(TreeNode(hashes, 2 * k + 1), TreeNode(hashes, 2 * k + 2))

TreeRoot(hashes) == TreeNode(hashes, 0)

\* getProof: the siblings on the path from node k to the root
RECURSIVE TreeProof(_, _)
TreeProof(hashes, k) ==
    IF k = 0 THEN <<>>
    ELSE LET sibling == IF k % 2 = 1 THEN k + 1 ELSE k - 1
             parent == (k - 1) \div 2
         IN <<TreeNode(hashes, sibling)>> \o TreeProof(hashes, parent)

----------------------------------------------------------------------------
(* MerkleGenerator *)

\* rewards is a sequence of RewardEntry [address, amount]
StandardLeaves(rewards) ==
    [i \in 1..Len(rewards) |-> StandardLeafHash(rewards[i].address, rewards[i].amount)]

\* MerkleGenerator.generate: root and the proofs map (address -> proof; a later
\* entry of the same address overwrites an earlier one)
Generate(rewards) ==
    IF Len(rewards) = 0
    THEN [root |-> ZeroHash, proofs |-> <<>>, entries |-> <<>>]
    ELSE LET hashes == StandardLeaves(rewards)
             addrs == {rewards[i].address : i \in 1..Len(rewards)}
             lastOf(a) == CHOOSE i \in 1..Len(rewards) :
                             /\ rewards[i].address = a
                             /\ \A j \in 1..Len(rewards) :
                                    rewards[j].address = a => j <= i
         IN [root |-> TreeRoot(hashes),
             proofs |-> [a \in addrs |->
                            TreeProof(hashes, TreeIndex(hashes, lastOf(a)))],
             entries |-> rewards]

\* MerkleGenerator.getProof: undefined for an address without an entry
HasProof(result, address) == address \in DOMAIN result.proofs
GetProof(result, address) == result.proofs[address]

\* a verify that folds the proof from the tree's leaf of the address, whatever
\* the amount
VerifyAnyAmount(root, address, amount, proof) ==
    \E x \in 0..3 : ProcessProof(proof, StandardLeafHash(address, x), 1) = root

\* MerkleGenerator.verify
Verify(root, address, amount, proof) ==
    ProcessProof(proof, VerifyLeaf(address, amount), 1) = root

----------------------------------------------------------------------------
(* Inputs presented to the distributor: roots and proofs of commitments    *)
(* over reward lists with unique addresses.  Account a is owed RewardOf(a) *)
(* in every list that names it.                                            *)

RewardOf(account) == account

RewardEntry(account) == [address |-> account, amount |-> RewardOf(account)]

RewardLists ==
    UNION {{[i \in 1..n |-> RewardEntry(f[i])] :
               f \in {g \in [1..n -> Accounts] :
                         \A i, j \in 1..n : i # j => g[i] # g[j]}} :
           n \in 1..NumAccounts}

IsMember(rewards, account) == \E i \in 1..Len(rewards) : rewards[i].address = account

\* a commitment of the same shape over the leaves the distributor recomputes
PackedLeaves(rewards) ==
    [i \in 1..Len(rewards) |-> ContractLeaf(rewards[i].address, rewards[i].amount)]

PackedRoot(rewards) == TreeRoot(PackedLeaves(rewards))

PackedProof(rewards, account) ==
    LET hashes == PackedLeaves(rewards)
        i == CHOOSE i \in 1..Len(rewards) : rewards[i].address = account
    IN TreeProof(hashes, TreeIndex(hashes, i))

GeneratedRoots == {Generate(r).root : r \in RewardLists}
PackedRoots == {PackedRoot(r) : r \in RewardLists}
RootInputs == {ZeroHash} \cup GeneratedRoots \cup PackedRoots

ProofInputs ==
    {<<>>}
    \cup UNION {{GetProof(Generate(r), r[i].address) : i \in 1..Len(r)} : r \in RewardLists}
    \cup UNION {{PackedProof(r, r[i].address) : i \in 1..Len(r)} : r \in RewardLists}

\* the leaves the distributor can recompute from the calls of the model
LeafInputs == {ContractLeaf(a, x) : a \in Accounts, x \in ClaimAmounts}

\* MerkleProof.processProof(proof, leaf) on the proofs and leaves of the model,
\* computed once
ProcessedProofs == [p \in ProofInputs |-> [l \in LeafInputs |-> ProcessProof(p, l, 1)]]

\* MerkleProof.verify(proof, root, leaf)
MerkleProofVerify(proof, root, leaf) == ProcessedProofs[proof][leaf] = root

----------------------------------------------------------------------------
(* MerkleDistributor *)

Treasury == 0 - 1
Holders == {Treasury} \cup Accounts
Keys == Epochs \X Tokens \X Accounts

VARIABLES
    epochMerkleRoots,   \* <<epochId, token>> -> merkleRoot (ZeroHash: not set)
    claimed,            \* <<epochId, token, account>> -> BOOLEAN
    totalClaimed,       \* <<account, token>> -> cumulative amount
    balanceOf,          \* token -> holder -> balance the distributor may move
    claimedEvents,      \* <<epochId, token, account>> -> amounts of the Claimed events
    pending,            \* the call being executed: msg.sender and arguments
    mempool,            \* calls submitted concurrently, in the order submitted
    outcome,            \* per call of mempool: revert reason and keys it paid
    last                \* outcome of the last executed call: operation, revert
                        \* reason ("" none), amount transferred, batch entries
                        \* skipped, value returned

\* EpochManager and the chain it runs on
VARIABLES
    now,                \* block.timestamp, in days
    epochDuration,      \* EpochManager.epochDuration, in days
    currentEpochId,     \* EpochManager.currentEpochId
    epochs,             \* EpochManager.epochs: id -> Epoch (all zero: never written)
    epochCall,          \* the EpochManager call executed last, with its result
    settling            \* EpochService.settleEpoch between its two transactions

\* ReceiptRegistry
VARIABLES
    receipts,           \* paymentId -> Receipt (timestamp 0: none)
    receiptIds,         \* paymentIds in the order recorded
    epochReceipts,      \* epochId -> paymentIds in the order recorded
    epochTotalVolume,   \* epochId -> sum of amounts
    epochTotalFees,     \* epochId -> sum of protocol fees
    registryCall        \* the ReceiptRegistry call executed last, with its result

\* AttestationRegistry and its bond token
VARIABLES
    attestations,       \* attestationId -> Attestation (timestamp 0: never created)
    attestationIds,     \* attestationIds in the order created
    attesterValidCount, \* address -> attestations validated
    attesterSlashCount, \* address -> attestations slashed
    challengerWinCount, \* address -> challenges won
    bondBalance,        \* holder -> balance of bondToken
    minBondAmount,      \* AttestationRegistry.minBondAmount
    challengePeriod,    \* AttestationRegistry.challengePeriod, in days
    slashPercentage,    \* AttestationRegistry.slashPercentage, in basis points
    attestCall          \* the AttestationRegistry call executed last, with its result

\* XsrnTreasury and the token it distributes
VARIABLES
    watcher,            \* XsrnTreasury.watcher
    operator,           \* XsrnTreasury.operator
    publicGoods,        \* XsrnTreasury.publicGoods
    securityReserve,    \* XsrnTreasury.securityReserve
    distributors,       \* accounts granted DISTRIBUTOR_ROLE
    tokenBalance,       \* holder -> balance of the token distributed
    treasuryCall        \* the XsrnTreasury call executed last, with its result

\* a caller of MerkleGenerator (the class is static and keeps no state)
VARIABLES
    genRewards,         \* the rewards last passed to generate
    genResult,          \* what generate returned for them
    genVerify           \* the last call of verify: arguments and value returned

\* XsrnSessionManager and the USDC it moves
VARIABLES
    sessions,           \* sessionId -> Session (signer 0: never created)
    userSessions,       \* owner -> sessionIds in the order created
    relayer,            \* XsrnSessionManager.relayer
    usdcBalance,        \* holder -> balance of usdcToken
    payments,           \* the PaymentExecuted events, in the order emitted
    sessionCall         \* the XsrnSessionManager call executed last, with its result

ledger == <<epochMerkleRoots, claimed, totalClaimed, balanceOf, claimedEvents>>
distVars == <<epochMerkleRoots, claimed, totalClaimed, balanceOf, claimedEvents,
              pending, mempool, outcome, last>>
epochState == <<epochDuration, currentEpochId, epochs>>
epochVars == <<now, epochDuration, currentEpochId, epochs, epochCall, settling>>
registryState == <<receipts, receiptIds, epochReceipts, epochTotalVolume, epochTotalFees>>
registryVars == <<receipts, receiptIds, epochReceipts, epochTotalVolume, epochTotalFees,
                  registryCall>>
attestState == <<attestations, attestationIds, attesterValidCount, attesterSlashCount,
                 challengerWinCount, bondBalance>>
attestConfig == <<minBondAmount, challengePeriod, slashPercentage>>
attestVars == <<attestations, attestationIds, attesterValidCount, attesterSlashCount,
                challengerWinCount, bondBalance, minBondAmount, challengePeriod,
                slashPercentage, attestCall>>
recipients == <<watcher, operator, publicGoods, securityReserve>>
treasuryVars == <<watcher, operator, publicGoods, securityReserve, distributors,
                  tokenBalance, treasuryCall>>
generatorVars == <<genRewards, genResult, genVerify>>
sessionState == <<sessions, userSessions, relayer, usdcBalance, payments>>
sessionVars == <<sessions, userSessions, relayer, usdcBalance, payments, sessionCall>>
vars == <<distVars, epochVars, registryVars, attestVars, treasuryVars, generatorVars,
          sessionVars>>

\* bounds of the epoch clock and of the epoch ids tried
MaxTime == 9
MaxEpochId == 3
EpochIds == 0..(MaxEpochId + 1)

\* durations in days
MIN_EPOCH_DURATION == 1
MAX_EPOCH_DURATION == 30
DefaultEpochDuration == 7

\* block.timestamp of the deployment
DeployTime == 1

Epoch(id, startTime, endTime, merkleRoot, finalized, totalRewards) ==
    [id |-> id, startTime |-> startTime, endTime |-> endTime,
     merkleRoot |-> merkleRoot, finalized |-> finalized, totalRewards |-> totalRewards]

\* the value of a mapping slot never written
ZeroEpoch == Epoch(0, 0, 0, ZeroHash, FALSE, 0)

\* result of an EpochManager call: revert reason ("" none) and value returned
EpochCall(op, err) == [op |-> op, err |-> err, ret |-> FALSE]

\* EpochManager.constructor
EpochManagerInit ==
    /\ now = DeployTime
    /\ epochDuration = DefaultEpochDuration
    /\ currentEpochId = 1
    /\ epochs = [id \in EpochIds |->
                    IF id = 1
                    THEN Epoch(1, DeployTime, DeployTime + DefaultEpochDuration,
                               ZeroHash, FALSE, 0)
                    ELSE ZeroEpoch]
    /\ epochCall = EpochCall("constructor", "")
    /\ settling = <<>>

\* bounds of the receipts recorded
NumPayments == 3
MaxReceiptTime == 2

PaymentIds == 1..NumPayments

Receipt(paymentId, payer, merchant, agent, token, amount, protocolFee, timestamp, epochId, routeRefHash) ==
    [paymentId |-> paymentId, payer |-> payer, merchant |-> merchant, agent |-> agent,
     token |-> token, amount |-> amount, protocolFee |-> protocolFee,
     timestamp |-> timestamp, epochId |-> epochId, routeRefHash |-> routeRefHash]

\* the value of a receipts slot never written
ZeroReceipt == Receipt(0, 0, 0, 0, "", 0, 0, 0, 0, ZeroHash)

\* epoch ids receipts are tagged with, and epoch ids looked up
ReceiptEpochs == Epochs
StatEpochs == 0..(MaxEpoch + 1)

\* result of a ReceiptRegistry call: revert reason ("" none), value returned
RegistryCall(op, err) == [op |-> op, err |-> err, ret |-> <<>>]

\* ReceiptRegistry.constructor
ReceiptRegistryInit ==
    /\ receipts = [p \in PaymentIds |-> ZeroReceipt]
    /\ receiptIds = <<>>
    /\ epochReceipts = [e \in StatEpochs |-> <<>>]
    /\ epochTotalVolume = [e \in StatEpochs |-> 0]
    /\ epochTotalFees = [e \in StatEpochs |-> 0]
    /\ registryCall = RegistryCall("constructor", "")

\* address(0), and the width of the unsigned integers of the treasury
\* arithmetic (checked: an overflow reverts)
ZeroAddress == 0 - 2
UintBits == 15
MaxUint == 2^UintBits - 1

\* bounds of the treasury: tokens ever received, accounts paid
MaxSupply == 10
NumRecipients == 4

TreasuryContract == 0 - 3
RecipientAccounts == 1..NumRecipients
TreasuryHolders == {TreasuryContract, Admin} \cup RecipientAccounts

\* distribution ratios, in basis points
WATCHER_BPS == 4000
OPERATOR_BPS == 3000
PUBLIC_GOODS_BPS == 2000
SECURITY_RESERVE_BPS == 1000

\* result of an XsrnTreasury call: revert reason ("" none), totalAmount of the
\* RewardsDistributed event
TreasuryCall(op, err) == [op |-> op, err |-> err, ret |-> 0]

\* XsrnTreasury.constructor: the admin stands in for the four recipients;
\* nobody holds DISTRIBUTOR_ROLE
XsrnTreasuryInit ==
    /\ watcher = Admin
    /\ operator = Admin
    /\ publicGoods = Admin
    /\ securityReserve = Admin
    /\ distributors = {}
    /\ tokenBalance = [t \in Tokens |-> [h \in TreasuryHolders |-> 0]]
    /\ treasuryCall = TreasuryCall("constructor", "")

\* bounds of the attestations: block times, attestations created, bond token
\* held by each account, validations of ids never created
MaxAttestTime == 3
MaxAttestations == 1
BondFunds == 3
MaxStrayValidations == 1

\* the configuration the registry is deployed with: minimum bond, challenge
\* period in days, slash percentage in basis points
DeployMinBondAmount == 2
DeployChallengePeriod == 1
DeploySlashPercentage == 5000

RegistryContract == 0 - 4
AttestCallers == {Admin} \cup Accounts
Attesters == {1}
Arbiters == {Admin, 1}
BondHolders == {RegistryContract} \cup AttestCallers
StatAddresses == {ZeroAddress} \cup AttestCallers

\* a proof content hash and a challenge reason hash
ContentHash == Keccak256(<<"content">>)
ReasonHash == Keccak256(<<"reason">>)

\* keccak256(abi.encodePacked(msg.sender, contentHash, block.timestamp, block.number));
\* a block is mined each day, so that the block number follows the timestamp
AttestationId(sender, contentHash, timestamp) ==
    Keccak256(<<"packed", sender, contentHash, timestamp, timestamp>>)

AttestationIdSpace ==
    {AttestationId(a, ContentHash, t) : a \in Attesters, t \in 1..MaxAttestTime}

Attestation(attester, contentHash, bondAmount, timestamp, challengeDeadline, status, challenger, challengeReason) ==
    [attester |-> attester, contentHash |-> contentHash, bondAmount |-> bondAmount,
     timestamp |-> timestamp, challengeDeadline |-> challengeDeadline,
     status |-> status, challenger |-> challenger, challengeReason |-> challengeReason]

\* the value of an attestations slot never written: the first member of the
\* status enum is Pending
ZeroAttestation == Attestation(ZeroAddress, ZeroHash, 0, 0, 0, "Pending", ZeroAddress, ZeroHash)

\* result of an AttestationRegistry call: revert reason ("" none)
AttestCall(op, err) == [op |-> op, err |-> err]

\* AttestationRegistry.constructor; every account holds BondFunds of the
\* bond token and has approved the registry for them
AttestationRegistryInit ==
    /\ attestations = [id \in AttestationIdSpace |-> ZeroAttestation]
    /\ attestationIds = <<>>
    /\ attesterValidCount = [a \in StatAddresses |-> 0]
    /\ attesterSlashCount = [a \in StatAddresses |-> 0]
    /\ challengerWinCount = [a \in StatAddresses |-> 0]
    /\ bondBalance = [h \in BondHolders |-> IF h = RegistryContract THEN 0 ELSE BondFunds]
    /\ minBondAmount = DeployMinBondAmount
    /\ challengePeriod = DeployChallengePeriod
    /\ slashPercentage = DeploySlashPercentage
    /\ attestCall = AttestCall("constructor", "")

\* bounds of the generator's inputs: reward lists over NumRewardAccounts
\* addresses, each owed one of RewardAmounts
NumRewardAccounts == 3
MaxRewardAmount == 2
RewardAccounts == 1..NumRewardAccounts
RewardAmounts == 1..MaxRewardAmount

\* a result no call has produced yet
NoTree == [root |-> ZeroHash, proofs |-> <<>>, entries |-> <<>>]
NoVerify == [op |-> "none", address |-> 0, amount |-> 0, proof |-> <<>>, ret |-> FALSE]

\* nothing generated, nothing verified
MerkleGeneratorInit ==
    /\ genRewards = <<>>
    /\ genResult = NoTree
    /\ genVerify = NoVerify

\* bounds of the session clock, of the sessions created and of the USDC of a
\* session owner
MaxSessionTime == 3
MaxSessions == 1
SessionFunds == 3

\* 1 days, in the unit of block.timestamp
OneDay == 1

\* the accounts of the session manager: the owner of sessions, the payee, the
\* key that signs for a session, a key that is not the session's, the relayer
\* the owner of the contract appoints, and the address ECDSA.recover returns
\* for a signature over another message
SessionOwners == {1}
Payees == {2}
SessionKey == 0 - 5
OtherKey == 0 - 6
RelayerAccount == 0 - 7
UnknownSigner == 0 - 8
SessionSigners == {ZeroAddress, SessionKey}
UsdcHolders == SessionOwners \cup Payees
SessionPaymentIds == {"p1", "p2"}

\* sessionId = keccak256(abi.encodePacked(msg.sender, signer, block.timestamp,
\* block.number)); the block number is fixed by the timestamp
SessionId(sender, signer, timestamp) ==
    Keccak256(<<"packed", sender, signer, timestamp, timestamp>>)

SessionIdSpace ==
    {SessionId(o, SessionKey, t) : o \in SessionOwners, t \in 0..MaxSessionTime}

Session(signer, owner, singleLimit, dailyLimit, usedToday, expiry, lastResetDate, isActive) ==
    [signer |-> signer, owner |-> owner, singleLimit |-> singleLimit,
     dailyLimit |-> dailyLimit, usedToday |-> usedToday, expiry |-> expiry,
     lastResetDate |-> lastResetDate, isActive |-> isActive]

\* a session of the mapping that was never written
ZeroSession == Session(ZeroAddress, ZeroAddress, 0, 0, 0, 0, 0, FALSE)

\* result of an XsrnSessionManager call: revert reason ("" none)
SessionCall(op, err) == [op |-> op, err |-> err]

\* XsrnSessionManager.constructor (no relayer is set); the session owner holds
\* SessionFunds of USDC and has approved the manager for them
XsrnSessionManagerInit ==
    /\ sessions = [id \in SessionIdSpace |-> ZeroSession]
    /\ userSessions = [o \in SessionOwners |-> <<>>]
    /\ relayer = ZeroAddress
    /\ usdcBalance = [h \in UsdcHolders |-> IF h \in SessionOwners THEN SessionFunds ELSE 0]
    /\ payments = <<>>
    /\ sessionCall = SessionCall("constructor", "")

OperatorRole == {Admin}

\* a call: account is msg.sender (for a view, the account asked about)
Call(op, account, epochIds, token, amounts, merkleProofs, merkleRoot) ==
    [op |-> op, account |-> account, epochIds |-> epochIds, token |-> token,
     amounts |-> amounts, merkleProofs |-> merkleProofs, merkleRoot |-> merkleRoot]

NoCall == Call("none", Admin, <<>>, "USDC", <<>>, <<>>, ZeroHash)

Result(op, err, paid) ==
    [op |-> op, err |-> err, paid |-> paid, skipped |-> 0, ret |-> FALSE]

NoResult == Result("none", "", 0)

Init ==
    /\ epochMerkleRoots = [k \in Epochs \X Tokens |-> ZeroHash]
    /\ claimed = [k \in Keys |-> FALSE]
    /\ totalClaimed = [k \in Accounts \X Tokens |-> 0]
    /\ balanceOf = [t \in Tokens |->
                       [h \in Holders |-> IF h = Treasury THEN TreasuryFunds ELSE 0]]
    /\ claimedEvents = [k \in Keys |-> <<>>]
    /\ pending = NoCall
    /\ mempool = <<>>
    /\ outcome = <<>>
    /\ last = Result("constructor", "", 0)
    /\ EpochManagerInit
    /\ ReceiptRegistryInit
    /\ AttestationRegistryInit
    /\ XsrnTreasuryInit
    /\ MerkleGeneratorInit
    /\ XsrnSessionManagerInit

\* a transaction that reverts: no storage, balance or event change
Revert(op, err) ==
    /\ last' = Result(op, err, 0)
    /\ UNCHANGED ledger

\* IERC20(token).safeTransferFrom(from, to, amount)
TransferOk(token, from, amount) == balanceOf[token][from] >= amount

AfterTransfer(token, from, to, amount) ==
    [balanceOf EXCEPT ![token] =
        [h \in Holders |->
            IF h = from /\ h = to THEN @[h]
            ELSE IF h = from THEN @[h] - amount
            ELSE IF h = to THEN @[h] + amount
            ELSE @[h]]]

SetMerkleRoot(caller, epochId, token, merkleRoot) ==
    IF caller \notin OperatorRole
    THEN Revert("setMerkleRoot", "AccessControlUnauthorizedAccount")
    ELSE IF merkleRoot = ZeroHash
    THEN Revert("setMerkleRoot", "Invalid merkle root")
    ELSE /\ epochMerkleRoots' = [epochMerkleRoots EXCEPT ![<<epochId, token>>] = merkleRoot]
         /\ last' = Result("setMerkleRoot", "", 0)
         /\ UNCHANGED <<claimed, totalClaimed, balanceOf, claimedEvents>>

\* claim assigning the amount to the cumulative total instead of adding it
ClaimOverwriteTotal(sender, epochId, token, amount, merkleProof) ==
    LET merkleRoot == epochMerkleRoots[<<epochId, token>>]
        leaf == ContractLeaf(sender, amount)
        key == <<epochId, token, sender>>
    IN IF claimed[key]
       THEN Revert("claim", "Already claimed")
       ELSE IF merkleRoot = ZeroHash
       THEN Revert("claim", "Merkle root not set")
       ELSE IF ~MerkleProofVerify(merkleProof, merkleRoot, leaf)
       THEN Revert("claim", "Invalid proof")
       ELSE IF ~TransferOk(token, Treasury, amount)
       THEN Revert("claim", "SafeERC20FailedOperation")
       ELSE /\ claimed' = [claimed EXCEPT ![key] = TRUE]
            /\ totalClaimed' = [totalClaimed EXCEPT ![<<sender, token>>] = amount]
            /\ balanceOf' = AfterTransfer(token, Treasury, sender, amount)
            /\ claimedEvents' = [claimedEvents EXCEPT ![key] = Append(@, amount)]
            /\ last' = Result("claim", "", amount)
            /\ UNCHANGED epochMerkleRoots

\* claim with an unchecked transferFrom: a failed transfer does not revert
ClaimUncheckedTransfer(sender, epochId, token, amount, merkleProof) ==
    LET merkleRoot == epochMerkleRoots[<<epochId, token>>]
        leaf == ContractLeaf(sender, amount)
        key == <<epochId, token, sender>>
    IN IF claimed[key]
       THEN Revert("claim", "Already claimed")
       ELSE IF merkleRoot = ZeroHash
       THEN Revert("claim", "Merkle root not set")
       ELSE IF ~MerkleProofVerify(merkleProof, merkleRoot, leaf)
       THEN Revert("claim", "Invalid proof")
       ELSE /\ claimed' = [claimed EXCEPT ![key] = TRUE]
            /\ totalClaimed' = [totalClaimed EXCEPT ![<<sender, token>>] = @ + amount]
            /\ balanceOf' = IF TransferOk(token, Treasury, amount)
                            THEN AfterTransfer(token, Treasury, sender, amount)
                            ELSE balanceOf
            /\ claimedEvents' = [claimedEvents EXCEPT ![key] = Append(@, amount)]
            /\ last' = Result("claim", "", amount)
            /\ UNCHANGED epochMerkleRoots

\* claim without the require on the recorded root
ClaimNoRootCheck(sender, epochId, token, amount, merkleProof) ==
    LET merkleRoot == epochMerkleRoots[<<epochId, token>>]
        leaf == ContractLeaf(sender, amount)
        key == <<epochId, token, sender>>
    IN IF claimed[key]
       THEN Revert("claim", "Already claimed")
       ELSE IF ~MerkleProofVerify(merkleProof, merkleRoot, leaf)
       THEN Revert("claim", "Invalid proof")
       ELSE IF ~TransferOk(token, Treasury, amount)
       THEN Revert("claim", "SafeERC20FailedOperation")
       ELSE /\ claimed' = [claimed EXCEPT ![key] = TRUE]
            /\ totalClaimed' = [totalClaimed EXCEPT ![<<sender, token>>] = @ + amount]
            /\ balanceOf' = AfterTransfer(token, Treasury, sender, amount)
            /\ claimedEvents' = [claimedEvents EXCEPT ![key] = Append(@, amount)]
            /\ last' = Result("claim", "", amount)
            /\ UNCHANGED epochMerkleRoots

\* claim that pays without writing the claimed flag
ClaimNoMark(sender, epochId, token, amount, merkleProof) ==
    LET merkleRoot == epochMerkleRoots[<<epochId, token>>]
        leaf == ContractLeaf(sender, amount)
        key == <<epochId, token, sender>>
    IN IF claimed[key]
       THEN Revert("claim", "Already claimed")
       ELSE IF merkleRoot = ZeroHash
       THEN Revert("claim", "Merkle root not set")
       ELSE IF ~MerkleProofVerify(merkleProof, merkleRoot, leaf)
       THEN Revert("claim", "Invalid proof")
       ELSE IF ~TransferOk(token, Treasury, amount)
       THEN Revert("claim", "SafeERC20FailedOperation")
       ELSE /\ totalClaimed' = [totalClaimed EXCEPT ![<<sender, token>>] = @ + amount]
            /\ balanceOf' = AfterTransfer(token, Treasury, sender, amount)
            /\ claimedEvents' = [claimedEvents EXCEPT ![key] = Append(@, amount)]
            /\ last' = Result("claim", "", amount)
            /\ UNCHANGED <<epochMerkleRoots, claimed>>

Claim(sender, epochId, token, amount, merkleProof) ==
    LET merkleRoot == epochMerkleRoots[<<epochId, token>>]
        leaf == ContractLeaf(sender, amount)
        key == <<epochId, token, sender>>
    IN IF claimed[key]
       THEN Revert("claim", "Already claimed")
       ELSE IF merkleRoot = ZeroHash
       THEN Revert("claim", "Merkle root not set")
       ELSE IF ~MerkleProofVerify(merkleProof, merkleRoot, leaf)
       THEN Revert("claim", "Invalid proof")
       ELSE IF ~TransferOk(token, Treasury, amount)
       THEN Revert("claim", "SafeERC20FailedOperation")
       ELSE /\ claimed' = [claimed EXCEPT ![key] = TRUE]
            /\ totalClaimed' = [totalClaimed EXCEPT ![<<sender, token>>] = @ + amount]
            /\ balanceOf' = AfterTransfer(token, Treasury, sender, amount)
            /\ claimedEvents' = [claimedEvents EXCEPT ![key] = Append(@, amount)]
            /\ last' = Result("claim", "", amount)
            /\ UNCHANGED epochMerkleRoots

\* claimMultiple testing the flags as they were when the call began
RECURSIVE ClaimLoopStaleFlags(_, _, _, _, _, _, _)
ClaimLoopStaleFlags(sender, epochIds, token, amounts, merkleProofs, i, acc) ==
    IF i > Len(epochIds) THEN acc
    ELSE LET epochId == epochIds[i]
             amount == amounts[i]
             key == <<epochId, token, sender>>
             merkleRoot == epochMerkleRoots[<<epochId, token>>]
             leaf == ContractLeaf(sender, amount)
             skip == ClaimLoopStaleFlags(sender, epochIds, token, amounts, merkleProofs,
                                         i + 1, acc)
         IN IF claimed[key] THEN skip
            ELSE IF merkleRoot = ZeroHash THEN skip
            ELSE IF ~MerkleProofVerify(merkleProofs[i], merkleRoot, leaf) THEN skip
            ELSE ClaimLoopStaleFlags(sender, epochIds, token, amounts, merkleProofs, i + 1,
                     [claimed |-> [acc.claimed EXCEPT ![key] = TRUE],
                      events |-> [acc.events EXCEPT ![key] = Append(@, amount)],
                      totalAmount |-> acc.totalAmount + amount,
                      emitted |-> acc.emitted + 1])

\* claimMultiple leaving the loop at the first entry it cannot pay
RECURSIVE ClaimLoopBreak(_, _, _, _, _, _, _)
ClaimLoopBreak(sender, epochIds, token, amounts, merkleProofs, i, acc) ==
    IF i > Len(epochIds) THEN acc
    ELSE LET epochId == epochIds[i]
             amount == amounts[i]
             key == <<epochId, token, sender>>
             merkleRoot == epochMerkleRoots[<<epochId, token>>]
             leaf == ContractLeaf(sender, amount)
         IN IF acc.claimed[key] THEN acc
            ELSE IF merkleRoot = ZeroHash THEN acc
            ELSE IF ~MerkleProofVerify(merkleProofs[i], merkleRoot, leaf) THEN acc
            ELSE ClaimLoopBreak(sender, epochIds, token, amounts, merkleProofs, i + 1,
                     [claimed |-> [acc.claimed EXCEPT ![key] = TRUE],
                      events |-> [acc.events EXCEPT ![key] = Append(@, amount)],
                      totalAmount |-> acc.totalAmount + amount,
                      emitted |-> acc.emitted + 1])

\* the loop of claimMultiple from entry i on; acc carries the claimed flags,
\* the events (and their number) and totalAmount as written so far
RECURSIVE ClaimLoop(_, _, _, _, _, _, _)
ClaimLoop(sender, epochIds, token, amounts, merkleProofs, i, acc) ==
    IF i > Len(epochIds) THEN acc
    ELSE LET epochId == epochIds[i]
             amount == amounts[i]
             key == <<epochId, token, sender>>
             merkleRoot == epochMerkleRoots[<<epochId, token>>]
             leaf == ContractLeaf(sender, amount)
             skip == ClaimLoop(sender, epochIds, token, amounts, merkleProofs, i + 1, acc)
         IN IF acc.claimed[key] THEN skip
            ELSE IF merkleRoot = ZeroHash THEN skip
            ELSE IF ~MerkleProofVerify(merkleProofs[i], merkleRoot, leaf) THEN skip
            ELSE ClaimLoop(sender, epochIds, token, amounts, merkleProofs, i + 1,
                     [claimed |-> [acc.claimed EXCEPT ![key] = TRUE],
                      events |-> [acc.events EXCEPT ![key] = Append(@, amount)],
                      totalAmount |-> acc.totalAmount + amount,
                      emitted |-> acc.emitted + 1])

ClaimMultiple(sender, epochIds, token, amounts, merkleProofs) ==
    IF Len(epochIds) # Len(amounts) \/ Len(epochIds) # Len(merkleProofs)
    THEN Revert("claimMultiple", "Length mismatch")
    ELSE LET out == ClaimLoop(sender, epochIds, token, amounts, merkleProofs, 1,
                        [claimed |-> claimed, events |-> claimedEvents, totalAmount |-> 0,
                         emitted |-> 0])
         IN IF out.totalAmount > 0
            THEN IF ~TransferOk(token, Treasury, out.totalAmount)
                 THEN Revert("claimMultiple", "SafeERC20FailedOperation")
                 ELSE /\ claimed' = out.claimed
                      /\ claimedEvents' = out.events
                      /\ totalClaimed' =
                            [totalClaimed EXCEPT ![<<sender, token>>] = @ + out.totalAmount]
                      /\ balanceOf' = AfterTransfer(token, Treasury, sender, out.totalAmount)
                      /\ last' = [Result("claimMultiple", "", out.totalAmount) EXCEPT
                                     !.skipped = Len(epochIds) - out.emitted]
                      /\ UNCHANGED epochMerkleRoots
            ELSE /\ claimed' = out.claimed
                 /\ claimedEvents' = out.events
                 /\ last' = [Result("claimMultiple", "", 0) EXCEPT
                                !.skipped = Len(epochIds) - out.emitted]
                 /\ UNCHANGED <<epochMerkleRoots, totalClaimed, balanceOf>>

\* view functions
IsClaimed(epochId, token, account) == claimed[<<epochId, token, account>>]

\* canClaim without the test of the claimed flag
CanClaimNoFlag(epochId, token, account, amount, merkleProof) ==
    LET merkleRoot == epochMerkleRoots[<<epochId, token>>]
        leaf == ContractLeaf(account, amount)
    IN IF merkleRoot = ZeroHash THEN FALSE
       ELSE MerkleProofVerify(merkleProof, merkleRoot, leaf)

CanClaim(epochId, token, account, amount, merkleProof) ==
    LET merkleRoot == epochMerkleRoots[<<epochId, token>>]
        leaf == ContractLeaf(account, amount)
    IN IF claimed[<<epochId, token, account>>] THEN FALSE
       ELSE IF merkleRoot = ZeroHash THEN FALSE
       ELSE MerkleProofVerify(merkleProof, merkleRoot, leaf)

\* a call of a view function: it returns and writes nothing
IsClaimedCall(epochId, token, account) ==
    /\ last' = [Result("isClaimed", "", 0) EXCEPT
                   !.ret = IsClaimed(epochId, token, account)]
    /\ UNCHANGED ledger

CanClaimCall(epochId, token, account, amount, merkleProof) ==
    /\ last' = [Result("canClaim", "", 0) EXCEPT
                   !.ret = CanClaim(epochId, token, account, amount, merkleProof)]
    /\ UNCHANGED ledger

----------------------------------------------------------------------------
(* Calls made by the operator and the account holders *)

SetMerkleRootCalls ==
    {Call("setMerkleRoot", caller, <<epochId>>, token, <<>>, <<>>, merkleRoot) :
        caller \in Callers, epochId \in Epochs, token \in Tokens, merkleRoot \in RootInputs}

ClaimCalls ==
    {Call("claim", sender, <<epochId>>, token, <<amount>>, <<merkleProof>>, ZeroHash) :
        sender \in Accounts, epochId \in Epochs, token \in Tokens,
        amount \in ClaimAmounts, merkleProof \in ProofInputs}

\* batches in which the sender names the amount owed to it
ClaimMultipleCalls ==
    UNION {{Call("claimMultiple", sender, epochIds, token,
                 [i \in 1..n |-> RewardOf(sender)], merkleProofs, ZeroHash) :
               sender \in Accounts, token \in Tokens,
               epochIds \in [1..n -> Epochs], merkleProofs \in [1..n -> ProofInputs]} :
           n \in 0..MaxBatch}

\* batches whose arrays differ in length
MismatchCalls ==
    UNION {{Call("claimMultiple", sender, [i \in 1..n |-> 1], token,
                 [i \in 1..nm[1] |-> RewardOf(sender)], [i \in 1..nm[2] |-> <<>>], ZeroHash) :
               sender \in Accounts, token \in Tokens,
               nm \in {<<n, m>>, <<m, n>>}} :
           <<n, m>> \in {nm \in (0..MaxBatch) \X (0..MaxBatch) : nm[1] # nm[2]}}

IsClaimedCalls ==
    {Call("isClaimed", account, <<epochId>>, token, <<>>, <<>>, ZeroHash) :
        account \in Accounts, epochId \in Epochs, token \in Tokens}

CanClaimCalls ==
    {Call("canClaim", account, <<epochId>>, token, <<amount>>, <<merkleProof>>, ZeroHash) :
        account \in Accounts, epochId \in Epochs, token \in Tokens,
        amount \in ClaimAmounts, merkleProof \in ProofInputs}

Calls ==
    SetMerkleRootCalls \cup ClaimCalls \cup ClaimMultipleCalls \cup MismatchCalls
    \cup IsClaimedCalls \cup CanClaimCalls

\* a call arrives at the contract
Submit ==
    /\ pending = NoCall
    /\ \E c \in Calls : pending' = c
    /\ last' = NoResult
    /\ UNCHANGED <<ledger, mempool, outcome, epochVars, registryVars, attestVars, treasuryVars,
                   generatorVars, sessionVars>>

ExecSetMerkleRoot ==
    /\ pending.op = "setMerkleRoot"
    /\ SetMerkleRoot(pending.account, pending.epochIds[1], pending.token, pending.merkleRoot)
    /\ pending' = NoCall
    /\ UNCHANGED <<mempool, outcome, epochVars, registryVars, attestVars, treasuryVars,
                   generatorVars, sessionVars>>

ExecClaim ==
    /\ pending.op = "claim"
    /\ Claim(pending.account, pending.epochIds[1], pending.token, pending.amounts[1],
             pending.merkleProofs[1])
    /\ pending' = NoCall
    /\ UNCHANGED <<mempool, outcome, epochVars, registryVars, attestVars, treasuryVars,
                   generatorVars, sessionVars>>

ExecClaimMultiple ==
    /\ pending.op = "claimMultiple"
    /\ ClaimMultiple(pending.account, pending.epochIds, pending.token, pending.amounts,
                     pending.merkleProofs)
    /\ pending' = NoCall
    /\ UNCHANGED <<mempool, outcome, epochVars, registryVars, attestVars, treasuryVars,
                   generatorVars, sessionVars>>

ExecIsClaimed ==
    /\ pending.op = "isClaimed"
    /\ IsClaimedCall(pending.epochIds[1], pending.token, pending.account)
    /\ pending' = NoCall
    /\ UNCHANGED <<mempool, outcome, epochVars, registryVars, attestVars, treasuryVars,
                   generatorVars, sessionVars>>

ExecCanClaim ==
    /\ pending.op = "canClaim"
    /\ CanClaimCall(pending.epochIds[1], pending.token, pending.account,
                    pending.amounts[1], pending.merkleProofs[1])
    /\ pending' = NoCall
    /\ UNCHANGED <<mempool, outcome, epochVars, registryVars, attestVars, treasuryVars,
                   generatorVars, sessionVars>>

Next ==
    \/ Submit
    \/ ExecSetMerkleRoot
    \/ ExecClaim
    \/ ExecClaimMultiple
    \/ ExecIsClaimed
    \/ ExecCanClaim

Spec == Init /\ [][Next]_vars

----------------------------------------------------------------------------
(* Concurrent submission: the roots of an epoch's commitments are recorded, *)
(* account holders submit claims with valid proofs at the same time, and    *)
(* the chain executes them one transaction at a time in any order.          *)

MaxConcurrent == 3

Waiting == [err |-> "waiting", paid |-> {}]

\* the calls with valid proofs when committed[e] is the list recorded for e
ValidClaimCalls(committed) ==
    {Call("claim", a, <<e>>, t, <<RewardOf(a)>>, <<PackedProof(committed[e], a)>>, ZeroHash) :
        <<e, t, a>> \in {k \in Keys : IsMember(committed[k[1]], k[3])}}

ValidClaimMultipleCalls(committed) ==
    UNION {{Call("claimMultiple", a, epochIds, t, [i \in 1..n |-> RewardOf(a)],
                 [i \in 1..n |-> PackedProof(committed[epochIds[i]], a)], ZeroHash) :
               epochIds \in [1..n -> {e \in Epochs : IsMember(committed[e], a)}],
               t \in Tokens} :
           <<n, a>> \in (1..MaxBatch) \X Accounts}

InitConcurrent ==
    \E committed \in [Epochs -> RewardLists] :
        /\ epochMerkleRoots = [k \in Epochs \X Tokens |-> PackedRoot(committed[k[1]])]
        /\ claimed = [k \in Keys |-> FALSE]
        /\ totalClaimed = [k \in Accounts \X Tokens |-> 0]
        /\ balanceOf = [t \in Tokens |->
                           [h \in Holders |-> IF h = Treasury THEN TreasuryFunds ELSE 0]]
        /\ claimedEvents = [k \in Keys |-> <<>>]
        /\ pending = NoCall
        /\ last = Result("constructor", "", 0)
        /\ \E n \in 2..MaxConcurrent :
              /\ mempool \in [1..n -> ValidClaimCalls(committed)
                                        \cup ValidClaimMultipleCalls(committed)]
              /\ outcome = [i \in 1..n |-> Waiting]
        /\ EpochManagerInit
        /\ ReceiptRegistryInit
        /\ AttestationRegistryInit
        /\ XsrnTreasuryInit
        /\ MerkleGeneratorInit
        /\ XsrnSessionManagerInit

\* what call i did: its revert reason and the keys whose flag it set
Outcome == [err |-> last'.err, paid |-> {k \in Keys : ~claimed[k] /\ claimed'[k]}]

ExecConcurrentClaim ==
    \E i \in 1..Len(mempool) :
        /\ outcome[i] = Waiting
        /\ mempool[i].op = "claim"
        /\ Claim(mempool[i].account, mempool[i].epochIds[1], mempool[i].token,
                 mempool[i].amounts[1], mempool[i].merkleProofs[1])
        /\ outcome' = [outcome EXCEPT ![i] = Outcome]
        /\ UNCHANGED <<mempool, pending, epochVars, registryVars, attestVars, treasuryVars,
                       generatorVars, sessionVars>>

ExecConcurrentClaimMultiple ==
    \E i \in 1..Len(mempool) :
        /\ outcome[i] = Waiting
        /\ mempool[i].op = "claimMultiple"
        /\ ClaimMultiple(mempool[i].account, mempool[i].epochIds, mempool[i].token,
                         mempool[i].amounts, mempool[i].merkleProofs)
        /\ outcome' = [outcome EXCEPT ![i] = Outcome]
        /\ UNCHANGED <<mempool, pending, epochVars, registryVars, attestVars, treasuryVars,
                       generatorVars, sessionVars>>

NextConcurrent ==
    \/ ExecConcurrentClaim
    \/ ExecConcurrentClaimMultiple

SpecConcurrent == InitConcurrent /\ [][NextConcurrent]_vars

----------------------------------------------------------------------------
(* EpochManager *)

EpochOperatorRole == {Admin}
EpochAdminRole == {Admin}
EpochCallers == {Admin, 1}

NoEpochCall == EpochCall("none", "")

\* a transaction that reverts: no storage change
EpochRevert(call) ==
    /\ epochCall' = call
    /\ UNCHANGED epochState

CanAdvanceEpoch == now >= epochs[currentEpochId].endTime

\* advanceEpoch without the require on the finalized flag
AdvanceEpochUnfinalized(caller) ==
    LET call(err) == EpochCall("advanceEpoch", err)
    IN IF ~CanAdvanceEpoch
       THEN EpochRevert(call("Current epoch not ended"))
       ELSE /\ currentEpochId' = currentEpochId + 1
            /\ epochs' = [epochs EXCEPT ![currentEpochId + 1] =
                              Epoch(currentEpochId + 1, now, now + epochDuration,
                                    ZeroHash, FALSE, 0)]
            /\ epochCall' = call("")
            /\ UNCHANGED epochDuration

\* advanceEpoch opening the new epoch where the previous one ended
AdvanceEpochBackToBack(caller) ==
    LET call(err) == EpochCall("advanceEpoch", err)
        start == epochs[currentEpochId].endTime
    IN IF ~CanAdvanceEpoch
       THEN EpochRevert(call("Current epoch not ended"))
       ELSE IF ~epochs[currentEpochId].finalized
       THEN EpochRevert(call("Current epoch not finalized yet"))
       ELSE /\ currentEpochId' = currentEpochId + 1
            /\ epochs' = [epochs EXCEPT ![currentEpochId + 1] =
                              Epoch(currentEpochId + 1, start, start + epochDuration,
                                    ZeroHash, FALSE, 0)]
            /\ epochCall' = call("")
            /\ UNCHANGED epochDuration

AdvanceEpoch(caller) ==
    LET call(err) == EpochCall("advanceEpoch", err)
    IN IF ~CanAdvanceEpoch
       THEN EpochRevert(call("Current epoch not ended"))
       ELSE IF ~epochs[currentEpochId].finalized
       THEN EpochRevert(call("Current epoch not finalized yet"))
       ELSE /\ currentEpochId' = currentEpochId + 1
            /\ epochs' = [epochs EXCEPT ![currentEpochId + 1] =
                              Epoch(currentEpochId + 1, now, now + epochDuration,
                                    ZeroHash, FALSE, 0)]
            /\ epochCall' = call("")
            /\ UNCHANGED epochDuration

\* finalizeEpoch without the require on the finalized flag
FinalizeEpochAgain(caller, epochId, merkleRoot, totalRewards) ==
    LET call(err) == EpochCall("finalizeEpoch", err)
    IN IF caller \notin EpochOperatorRole
       THEN EpochRevert(call("AccessControlUnauthorizedAccount"))
       ELSE IF ~(epochId <= currentEpochId)
       THEN EpochRevert(call("Invalid epoch"))
       ELSE IF merkleRoot = ZeroHash
       THEN EpochRevert(call("Invalid merkle root"))
       ELSE /\ epochs' = [epochs EXCEPT ![epochId] =
                              [@ EXCEPT !.merkleRoot = merkleRoot,
                                        !.totalRewards = totalRewards,
                                        !.finalized = TRUE]]
            /\ epochCall' = call("")
            /\ UNCHANGED <<epochDuration, currentEpochId>>

\* finalizeEpoch without the require on the root
FinalizeEpochAnyRoot(caller, epochId, merkleRoot, totalRewards) ==
    LET call(err) == EpochCall("finalizeEpoch", err)
    IN IF caller \notin EpochOperatorRole
       THEN EpochRevert(call("AccessControlUnauthorizedAccount"))
       ELSE IF ~(epochId <= currentEpochId)
       THEN EpochRevert(call("Invalid epoch"))
       ELSE IF epochs[epochId].finalized
       THEN EpochRevert(call("Already finalized"))
       ELSE /\ epochs' = [epochs EXCEPT ![epochId] =
                              [@ EXCEPT !.merkleRoot = merkleRoot,
                                        !.totalRewards = totalRewards,
                                        !.finalized = TRUE]]
            /\ epochCall' = call("")
            /\ UNCHANGED <<epochDuration, currentEpochId>>

FinalizeEpoch(caller, epochId, merkleRoot, totalRewards) ==
    LET call(err) == EpochCall("finalizeEpoch", err)
    IN IF caller \notin EpochOperatorRole
       THEN EpochRevert(call("AccessControlUnauthorizedAccount"))
       ELSE IF ~(epochId <= currentEpochId)
       THEN EpochRevert(call("Invalid epoch"))
       ELSE IF epochs[epochId].finalized
       THEN EpochRevert(call("Already finalized"))
       ELSE IF merkleRoot = ZeroHash
       THEN EpochRevert(call("Invalid merkle root"))
       ELSE /\ epochs' = [epochs EXCEPT ![epochId] =
                              [@ EXCEPT !.merkleRoot = merkleRoot,
                                        !.totalRewards = totalRewards,
                                        !.finalized = TRUE]]
            /\ epochCall' = call("")
            /\ UNCHANGED <<epochDuration, currentEpochId>>

\* setEpochDuration that also moves the end of the current epoch
SetEpochDurationRescale(caller, duration) ==
    LET call(err) == EpochCall("setEpochDuration", err)
    IN IF caller \notin EpochAdminRole
       THEN EpochRevert(call("AccessControlUnauthorizedAccount"))
       ELSE IF ~(duration >= MIN_EPOCH_DURATION)
       THEN EpochRevert(call("Duration too short"))
       ELSE IF ~(duration <= MAX_EPOCH_DURATION)
       THEN EpochRevert(call("Duration too long"))
       ELSE /\ epochDuration' = duration
            /\ epochs' = [epochs EXCEPT ![currentEpochId].endTime =
                              epochs[currentEpochId].startTime + duration]
            /\ epochCall' = call("")
            /\ UNCHANGED currentEpochId

SetEpochDuration(caller, duration) ==
    LET call(err) == EpochCall("setEpochDuration", err)
    IN IF caller \notin EpochAdminRole
       THEN EpochRevert(call("AccessControlUnauthorizedAccount"))
       ELSE IF ~(duration >= MIN_EPOCH_DURATION)
       THEN EpochRevert(call("Duration too short"))
       ELSE IF ~(duration <= MAX_EPOCH_DURATION)
       THEN EpochRevert(call("Duration too long"))
       ELSE /\ epochDuration' = duration
            /\ epochCall' = call("")
            /\ UNCHANGED <<currentEpochId, epochs>>

\* what an operator submits to finalizeEpoch: the zero root, or the root of
\* the commitment to one account's reward with that reward as the total
Settlements ==
    {<<ZeroHash, 0>>}
    \cup {<<PackedRoot(<<RewardEntry(a)>>), RewardOf(a)>> : a \in Accounts}
Durations == {MIN_EPOCH_DURATION - 1, MIN_EPOCH_DURATION, MIN_EPOCH_DURATION + 1,
              MAX_EPOCH_DURATION, MAX_EPOCH_DURATION + 1}

\* a block is mined later
Tick ==
    /\ now < MaxTime
    /\ now' = now + 1
    /\ epochCall' = NoEpochCall
    /\ UNCHANGED <<epochState, settling, distVars, registryVars, attestVars, treasuryVars,
                   generatorVars, sessionVars>>

ExecAdvanceEpoch ==
    /\ currentEpochId < MaxEpochId
    /\ \E caller \in EpochCallers : AdvanceEpoch(caller)
    /\ UNCHANGED <<now, settling, distVars, registryVars, attestVars, treasuryVars,
                   generatorVars, sessionVars>>

ExecFinalizeEpoch ==
    /\ \E caller \in EpochCallers, epochId \in EpochIds, settlement \in Settlements :
            FinalizeEpoch(caller, epochId, settlement[1], settlement[2])
    /\ UNCHANGED <<now, settling, distVars, registryVars, attestVars, treasuryVars,
                   generatorVars, sessionVars>>

ExecSetEpochDuration ==
    /\ \E caller \in EpochCallers, duration \in Durations :
            SetEpochDuration(caller, duration)
    /\ UNCHANGED <<now, settling, distVars, registryVars, attestVars, treasuryVars,
                   generatorVars, sessionVars>>

ExecCanAdvanceEpoch ==
    /\ epochCall' = [EpochCall("canAdvanceEpoch", "") EXCEPT !.ret = CanAdvanceEpoch]
    /\ UNCHANGED <<now, epochState, settling, distVars, registryVars, attestVars, treasuryVars,
                   generatorVars, sessionVars>>

NextEpoch ==
    \/ Tick
    \/ ExecAdvanceEpoch
    \/ ExecFinalizeEpoch
    \/ ExecSetEpochDuration
    \/ ExecCanAdvanceEpoch

SpecEpoch == Init /\ [][NextEpoch]_vars

----------------------------------------------------------------------------
(* ReceiptRegistry *)

EmitterRole == {Admin}
RegistryCallers == {Admin, 1}

RegistryRevert(call) ==
    /\ registryCall' = call
    /\ UNCHANGED registryState

\* recordReceipt without the require on an existing receipt
RecordReceiptOverwrite(caller, paymentId, payer, merchant, agent, token, amount, protocolFee, epochId, routeRefHash) ==
    LET call(err) == RegistryCall("recordReceipt", err)
    IN IF caller \notin EmitterRole
       THEN RegistryRevert(call("AccessControlUnauthorizedAccount"))
       ELSE /\ receipts' = [receipts EXCEPT ![paymentId] =
                                Receipt(paymentId, payer, merchant, agent, token, amount,
                                        protocolFee, now, epochId, routeRefHash)]
            /\ receiptIds' = Append(receiptIds, paymentId)
            /\ epochReceipts' = [epochReceipts EXCEPT ![epochId] = Append(@, paymentId)]
            /\ epochTotalVolume' = [epochTotalVolume EXCEPT ![epochId] = @ + amount]
            /\ epochTotalFees' = [epochTotalFees EXCEPT ![epochId] = @ + protocolFee]
            /\ registryCall' = call("")

\* recordReceipt adding the fee to the volume counter
RecordReceiptFeeAsVolume(caller, paymentId, payer, merchant, agent, token, amount, protocolFee, epochId, routeRefHash) ==
    LET call(err) == RegistryCall("recordReceipt", err)
    IN IF caller \notin EmitterRole
       THEN RegistryRevert(call("AccessControlUnauthorizedAccount"))
       ELSE IF receipts[paymentId].timestamp # 0
       THEN RegistryRevert(call("Receipt already exists"))
       ELSE /\ receipts' = [receipts EXCEPT ![paymentId] =
                                Receipt(paymentId, payer, merchant, agent, token, amount,
                                        protocolFee, now, epochId, routeRefHash)]
            /\ receiptIds' = Append(receiptIds, paymentId)
            /\ epochReceipts' = [epochReceipts EXCEPT ![epochId] = Append(@, paymentId)]
            /\ epochTotalVolume' = [epochTotalVolume EXCEPT ![epochId] = @ + protocolFee]
            /\ epochTotalFees' = [epochTotalFees EXCEPT ![epochId] = @ + protocolFee]
            /\ registryCall' = call("")

RecordReceipt(caller, paymentId, payer, merchant, agent, token, amount, protocolFee, epochId, routeRefHash) ==
    LET call(err) == RegistryCall("recordReceipt", err)
    IN IF caller \notin EmitterRole
       THEN RegistryRevert(call("AccessControlUnauthorizedAccount"))
       ELSE IF receipts[paymentId].timestamp # 0
       THEN RegistryRevert(call("Receipt already exists"))
       ELSE /\ receipts' = [receipts EXCEPT ![paymentId] =
                                Receipt(paymentId, payer, merchant, agent, token, amount,
                                        protocolFee, now, epochId, routeRefHash)]
            /\ receiptIds' = Append(receiptIds, paymentId)
            /\ epochReceipts' = [epochReceipts EXCEPT ![epochId] = Append(@, paymentId)]
            /\ epochTotalVolume' = [epochTotalVolume EXCEPT ![epochId] = @ + amount]
            /\ epochTotalFees' = [epochTotalFees EXCEPT ![epochId] = @ + protocolFee]
            /\ registryCall' = call("")

GetReceipt(paymentId) == receipts[paymentId]

GetEpochReceiptIds(epochId) == epochReceipts[epochId]

GetEpochStats(epochId) ==
    <<Len(epochReceipts[epochId]), epochTotalVolume[epochId], epochTotalFees[epochId]>>

GetTotalReceipts == Len(receiptIds)

\* payments recorded: <<amount, protocolFee>>
Payments == {<<1, 0>>, <<2, 1>>}

ExecRecordReceipt ==
    /\ \E caller \in RegistryCallers, paymentId \in PaymentIds, payment \in Payments,
          epochId \in ReceiptEpochs, token \in Tokens :
            RecordReceipt(caller, paymentId, 1, 2, Admin, token, payment[1], payment[2],
                          epochId, ZeroHash)
    /\ UNCHANGED <<distVars, epochVars, attestVars, treasuryVars,
                   generatorVars, sessionVars>>

ExecGetEpochStats ==
    /\ \E epochId \in StatEpochs :
          registryCall' = [RegistryCall("getEpochStats", "")
                             EXCEPT !.ret = GetEpochStats(epochId)]
    /\ UNCHANGED <<registryState, distVars, epochVars, attestVars, treasuryVars,
                   generatorVars, sessionVars>>

ExecGetTotalReceipts ==
    /\ registryCall' = [RegistryCall("getTotalReceipts", "")
                           EXCEPT !.ret = <<GetTotalReceipts>>]
    /\ UNCHANGED <<registryState, distVars, epochVars, attestVars, treasuryVars,
                   generatorVars, sessionVars>>

\* a block is mined later; the receipts carry its timestamp
RegistryTick ==
    /\ now < MaxReceiptTime
    /\ now' = now + 1
    /\ registryCall' = RegistryCall("none", "")
    /\ UNCHANGED <<registryState, distVars, epochState, epochCall, settling, attestVars, treasuryVars,
                   generatorVars, sessionVars>>

NextRegistry ==
    \/ RegistryTick
    \/ ExecRecordReceipt
    \/ ExecGetEpochStats
    \/ ExecGetTotalReceipts

SpecRegistry == Init /\ [][NextRegistry]_vars

----------------------------------------------------------------------------
(* Settlement: EpochService.settleEpoch finalizes the epoch in EpochManager *)
(* and then records the root in MerkleDistributor, in two transactions;     *)
(* both contracts also take calls from their operators directly.            *)

\* settleEpoch, first transaction: finalizeEpoch; the service goes on to the
\* second one only if this one did not revert
SettleFinalize ==
    /\ settling = <<>>
    /\ \E signer \in EpochCallers, epochId \in Epochs, tokenAddress \in Tokens,
          settlement \in Settlements :
            /\ FinalizeEpoch(signer, epochId, settlement[1], settlement[2])
            /\ settling' = IF epochCall'.err = ""
                           THEN <<signer, epochId, tokenAddress, settlement[1]>>
                           ELSE <<>>
    /\ UNCHANGED <<now, distVars, registryVars, attestVars, treasuryVars,
                   generatorVars, sessionVars>>

\* settleEpoch, second transaction: setMerkleRoot
SettleSetMerkleRoot ==
    /\ settling # <<>>
    /\ SetMerkleRoot(settling[1], settling[2], settling[3], settling[4])
    /\ settling' = <<>>
    /\ UNCHANGED <<pending, mempool, outcome, now, epochState, epochCall, registryVars, attestVars, treasuryVars,
                   generatorVars, sessionVars>>

\* MerkleDistributor.setMerkleRoot called by an account directly
DirectSetMerkleRoot ==
    /\ \E caller \in EpochCallers, epochId \in Epochs, token \in Tokens,
          settlement \in Settlements :
            SetMerkleRoot(caller, epochId, token, settlement[1])
    /\ UNCHANGED <<pending, mempool, outcome, epochVars, registryVars, attestVars, treasuryVars,
                   generatorVars, sessionVars>>

NextSettle ==
    \/ Tick
    \/ ExecAdvanceEpoch
    \/ ExecFinalizeEpoch
    \/ SettleFinalize
    \/ SettleSetMerkleRoot
    \/ DirectSetMerkleRoot

SpecSettle == Init /\ [][NextSettle]_vars

\* settleEpoch, second transaction, when the await throws (the provider rejects
\* the transaction or it runs out of gas): setMerkleRoot writes nothing and
\* settleEpoch ends with the exception, undoing nothing
SettleSetMerkleRootFails ==
    /\ settling # <<>>
    /\ settling' = <<>>
    /\ last' = Result("setMerkleRoot", "transaction failed", 0)
    /\ UNCHANGED <<ledger, pending, mempool, outcome, now, epochState, epochCall,
                   registryVars, attestVars, treasuryVars, generatorVars, sessionVars>>

\* the two contracts reached through EpochService only
NextSettleService ==
    \/ Tick
    \/ ExecAdvanceEpoch
    \/ SettleFinalize
    \/ SettleSetMerkleRoot
    \/ SettleSetMerkleRootFails

SpecSettleService == Init /\ [][NextSettleService]_vars

----------------------------------------------------------------------------
(* XsrnTreasury: the 40/30/20/10 distribution of the balance held *)

TreasuryAdminRole == {Admin}
TreasuryCallers == {Admin, 1}

TreasuryRevert(call) ==
    /\ treasuryCall' = call
    /\ UNCHANGED <<recipients, distributors, tokenBalance>>

\* AccessControl.grantRole(DISTRIBUTOR_ROLE, account)
GrantDistributorRole(caller, account) ==
    LET call(err) == TreasuryCall("grantRole", err)
    IN IF caller \notin TreasuryAdminRole
       THEN TreasuryRevert(call("AccessControlUnauthorizedAccount"))
       ELSE /\ distributors' = distributors \cup {account}
            /\ treasuryCall' = call("")
            /\ UNCHANGED <<recipients, tokenBalance>>

SetDistributionAddresses(caller, _watcher, _operator, _publicGoods, _securityReserve) ==
    LET call(err) == TreasuryCall("setDistributionAddresses", err)
    IN IF caller \notin TreasuryAdminRole
       THEN TreasuryRevert(call("AccessControlUnauthorizedAccount"))
       ELSE IF _watcher = ZeroAddress
       THEN TreasuryRevert(call("Invalid watcher"))
       ELSE IF _operator = ZeroAddress
       THEN TreasuryRevert(call("Invalid operator"))
       ELSE IF _publicGoods = ZeroAddress
       THEN TreasuryRevert(call("Invalid public goods"))
       ELSE IF _securityReserve = ZeroAddress
       THEN TreasuryRevert(call("Invalid security reserve"))
       ELSE /\ watcher' = _watcher
            /\ operator' = _operator
            /\ publicGoods' = _publicGoods
            /\ securityReserve' = _securityReserve
            /\ treasuryCall' = call("")
            /\ UNCHANGED <<distributors, tokenBalance>>

\* _transfer of an ERC20 token out of the treasury: nothing moves for amount 0
TreasuryTransfer(balances, to, amount) ==
    IF amount = 0
    THEN balances
    ELSE [[balances EXCEPT ![TreasuryContract] = @ - amount] EXCEPT ![to] = @ + amount]

\* checked multiplication and division of uint256
MulOverflows(a, b) == a * b > MaxUint
MulDiv(a, b, c) == (a * b) \div c

\* distributeRewards with the reserve computed from its own ratio
DistributeRewardsReserveByRatio(caller, token) ==
    LET call(err) == TreasuryCall("distributeRewards", err)
        totalBalance == tokenBalance[token][TreasuryContract]
        watcherAmount == MulDiv(totalBalance, WATCHER_BPS, 10000)
        operatorAmount == MulDiv(totalBalance, OPERATOR_BPS, 10000)
        publicGoodsAmount == MulDiv(totalBalance, PUBLIC_GOODS_BPS, 10000)
        securityReserveAmount == MulDiv(totalBalance, SECURITY_RESERVE_BPS, 10000)
        paid == TreasuryTransfer(TreasuryTransfer(TreasuryTransfer(TreasuryTransfer(
                    tokenBalance[token], watcher, watcherAmount),
                    operator, operatorAmount),
                    publicGoods, publicGoodsAmount),
                    securityReserve, securityReserveAmount)
    IN IF caller \notin distributors
       THEN TreasuryRevert(call("AccessControlUnauthorizedAccount"))
       ELSE IF totalBalance = 0
       THEN TreasuryRevert(call("No funds to distribute"))
       ELSE IF MulOverflows(totalBalance, WATCHER_BPS)
       THEN TreasuryRevert(call("Panic(0x11)"))
       ELSE /\ tokenBalance' = [tokenBalance EXCEPT ![token] = paid]
            /\ treasuryCall' = [call("") EXCEPT !.ret = totalBalance]
            /\ UNCHANGED <<recipients, distributors>>

DistributeRewards(caller, token) ==
    LET call(err) == TreasuryCall("distributeRewards", err)
        totalBalance == tokenBalance[token][TreasuryContract]
        watcherAmount == MulDiv(totalBalance, WATCHER_BPS, 10000)
        operatorAmount == MulDiv(totalBalance, OPERATOR_BPS, 10000)
        publicGoodsAmount == MulDiv(totalBalance, PUBLIC_GOODS_BPS, 10000)
        securityReserveAmount ==
            totalBalance - watcherAmount - operatorAmount - publicGoodsAmount
        paid == TreasuryTransfer(TreasuryTransfer(TreasuryTransfer(TreasuryTransfer(
                    tokenBalance[token], watcher, watcherAmount),
                    operator, operatorAmount),
                    publicGoods, publicGoodsAmount),
                    securityReserve, securityReserveAmount)
    IN IF caller \notin distributors
       THEN TreasuryRevert(call("AccessControlUnauthorizedAccount"))
       ELSE IF totalBalance = 0
       THEN TreasuryRevert(call("No funds to distribute"))
       ELSE IF MulOverflows(totalBalance, WATCHER_BPS)
       THEN TreasuryRevert(call("Panic(0x11)"))
       ELSE /\ tokenBalance' = [tokenBalance EXCEPT ![token] = paid]
            /\ treasuryCall' = [call("") EXCEPT !.ret = totalBalance]
            /\ UNCHANGED <<recipients, distributors>>

\* tokens held by all the holders of the model
RECURSIVE SumBalances(_, _)
SumBalances(balances, holders) ==
    IF holders = {}
    THEN 0
    ELSE LET h == CHOOSE x \in holders : TRUE
         IN balances[h] + SumBalances(balances, holders \ {h})

\* the recipient sets the admin installs: all distinct, two shared, one invalid
DistributionAddresses ==
    {<<1, 2, 3, 4>>, <<1, 1, 2, 2>>, <<1, 2, 3, ZeroAddress>>}

\* a fee payment arrives at the treasury
ReceiveFunds ==
    /\ \E token \in Tokens, amount \in 1..MaxSupply :
          /\ SumBalances(tokenBalance[token], TreasuryHolders) + amount <= MaxSupply
          /\ tokenBalance' = [tokenBalance EXCEPT ![token][TreasuryContract] = @ + amount]
    /\ treasuryCall' = TreasuryCall("receive", "")
    /\ UNCHANGED <<recipients, distributors>>
    /\ UNCHANGED <<distVars, epochVars, registryVars, attestVars,
                   generatorVars, sessionVars>>

ExecGrantDistributorRole ==
    /\ \E caller \in TreasuryCallers, account \in TreasuryCallers :
          GrantDistributorRole(caller, account)
    /\ UNCHANGED <<distVars, epochVars, registryVars, attestVars,
                   generatorVars, sessionVars>>

ExecSetDistributionAddresses ==
    /\ \E caller \in TreasuryCallers, a \in DistributionAddresses :
          SetDistributionAddresses(caller, a[1], a[2], a[3], a[4])
    /\ UNCHANGED <<distVars, epochVars, registryVars, attestVars,
                   generatorVars, sessionVars>>

ExecDistributeRewards ==
    /\ \E caller \in TreasuryCallers, token \in Tokens : DistributeRewards(caller, token)
    /\ UNCHANGED <<distVars, epochVars, registryVars, attestVars,
                   generatorVars, sessionVars>>

NextTreasury ==
    \/ ReceiveFunds
    \/ ExecGrantDistributorRole
    \/ ExecSetDistributionAddresses
    \/ ExecDistributeRewards

SpecTreasury == Init /\ [][NextTreasury]_vars

----------------------------------------------------------------------------
(* AttestationRegistry: bonded attestations, challenges, arbitration *)

ArbiterRole == {Admin}
AttestAdminRole == {Admin}

AttestRevert(call) ==
    /\ attestCall' = call
    /\ UNCHANGED <<attestState, attestConfig>>

\* IERC20(bondToken).safeTransferFrom / safeTransfer of amount out of from
BondTransferOk(from, amount) == bondBalance[from] >= amount

BondTransfer(balances, from, to, amount) ==
    [[balances EXCEPT ![from] = @ - amount] EXCEPT ![to] = @ + amount]

\* submitAttestation without the minimum bond
SubmitAttestationNoMinimum(caller, contentHash, bondAmount) ==
    LET call(err) == AttestCall("submitAttestation", err)
        attestationId == AttestationId(caller, contentHash, now)
        deadline == now + challengePeriod
    IN IF contentHash = ZeroHash
       THEN AttestRevert(call("Invalid content hash"))
       ELSE IF attestations[attestationId].timestamp # 0
       THEN AttestRevert(call("Attestation exists"))
       ELSE IF bondAmount > 0 /\ ~BondTransferOk(caller, bondAmount)
       THEN AttestRevert(call("ERC20InsufficientBalance"))
       ELSE /\ bondBalance' = BondTransfer(bondBalance, caller, RegistryContract, bondAmount)
            /\ attestations' = [attestations EXCEPT ![attestationId] =
                    Attestation(caller, contentHash, bondAmount, now, deadline,
                                "Pending", ZeroAddress, ZeroHash)]
            /\ attestationIds' = Append(attestationIds, attestationId)
            /\ attestCall' = call("")
            /\ UNCHANGED <<attesterValidCount, attesterSlashCount, challengerWinCount,
                           attestConfig>>

SubmitAttestation(caller, contentHash, bondAmount) ==
    LET call(err) == AttestCall("submitAttestation", err)
        attestationId == AttestationId(caller, contentHash, now)
        deadline == now + challengePeriod
    IN IF contentHash = ZeroHash
       THEN AttestRevert(call("Invalid content hash"))
       ELSE IF attestations[attestationId].timestamp # 0
       THEN AttestRevert(call("Attestation exists"))
       ELSE IF bondAmount > 0 /\ bondAmount < minBondAmount
       THEN AttestRevert(call("Bond too low"))
       ELSE IF bondAmount > 0 /\ ~BondTransferOk(caller, bondAmount)
       THEN AttestRevert(call("ERC20InsufficientBalance"))
       ELSE /\ bondBalance' = BondTransfer(bondBalance, caller, RegistryContract, bondAmount)
            /\ attestations' = [attestations EXCEPT ![attestationId] =
                    Attestation(caller, contentHash, bondAmount, now, deadline,
                                "Pending", ZeroAddress, ZeroHash)]
            /\ attestationIds' = Append(attestationIds, attestationId)
            /\ attestCall' = call("")
            /\ UNCHANGED <<attesterValidCount, attesterSlashCount, challengerWinCount,
                           attestConfig>>

\* challenge without the require on the caller
ChallengeBySelf(caller, attestationId, reason) ==
    LET call(err) == AttestCall("challenge", err)
        att == attestations[attestationId]
    IN IF att.timestamp = 0
       THEN AttestRevert(call("Attestation not found"))
       ELSE IF att.status # "Pending"
       THEN AttestRevert(call("Not challengeable"))
       ELSE IF ~(now <= att.challengeDeadline)
       THEN AttestRevert(call("Challenge period ended"))
       ELSE /\ attestations' = [attestations EXCEPT ![attestationId] =
                    [att EXCEPT !.status = "Challenged", !.challenger = caller,
                                !.challengeReason = reason]]
            /\ attestCall' = call("")
            /\ UNCHANGED <<attestationIds, attesterValidCount, attesterSlashCount,
                           challengerWinCount, bondBalance, attestConfig>>

Challenge(caller, attestationId, reason) ==
    LET call(err) == AttestCall("challenge", err)
        att == attestations[attestationId]
    IN IF att.timestamp = 0
       THEN AttestRevert(call("Attestation not found"))
       ELSE IF att.status # "Pending"
       THEN AttestRevert(call("Not challengeable"))
       ELSE IF ~(now <= att.challengeDeadline)
       THEN AttestRevert(call("Challenge period ended"))
       ELSE IF caller = att.attester
       THEN AttestRevert(call("Cannot self-challenge"))
       ELSE /\ attestations' = [attestations EXCEPT ![attestationId] =
                    [att EXCEPT !.status = "Challenged", !.challenger = caller,
                                !.challengeReason = reason]]
            /\ attestCall' = call("")
            /\ UNCHANGED <<attestationIds, attesterValidCount, attesterSlashCount,
                           challengerWinCount, bondBalance, attestConfig>>

\* arbitrate with the refund computed from the complementary ratio
ArbitrateRefundByRatio(caller, attestationId, challengeSucceeded) ==
    LET call(err) == AttestCall("arbitrate", err)
        att == attestations[attestationId]
        slashAmount == MulDiv(att.bondAmount, slashPercentage, 10000)
        refundAmount == MulDiv(att.bondAmount, 10000 - slashPercentage, 10000)
        slashed == BondTransfer(bondBalance, RegistryContract, att.challenger, slashAmount)
        refunded == BondTransfer(slashed, RegistryContract, att.attester, refundAmount)
    IN IF caller \notin ArbiterRole
       THEN AttestRevert(call("AccessControlUnauthorizedAccount"))
       ELSE IF att.status # "Challenged"
       THEN AttestRevert(call("Not in challenge"))
       ELSE IF challengeSucceeded
       THEN IF MulOverflows(att.bondAmount, slashPercentage)
            THEN AttestRevert(call("Panic(0x11)"))
            ELSE IF ~BondTransferOk(RegistryContract, slashAmount + refundAmount)
            THEN AttestRevert(call("ERC20InsufficientBalance"))
            ELSE /\ attestations' = [attestations EXCEPT ![attestationId] =
                         [att EXCEPT !.status = "Slashed"]]
                 /\ attesterSlashCount' = [attesterSlashCount EXCEPT ![att.attester] = @ + 1]
                 /\ challengerWinCount' = [challengerWinCount EXCEPT ![att.challenger] = @ + 1]
                 /\ bondBalance' = refunded
                 /\ attestCall' = call("")
                 /\ UNCHANGED <<attestationIds, attesterValidCount, attestConfig>>
       ELSE /\ attestations' = [attestations EXCEPT ![attestationId] =
                    [att EXCEPT !.status = "Validated"]]
            /\ attesterValidCount' = [attesterValidCount EXCEPT ![att.attester] = @ + 1]
            /\ attestCall' = call("")
            /\ UNCHANGED <<attestationIds, attesterSlashCount, challengerWinCount,
                           bondBalance, attestConfig>>

\* arbitrate without the require on the status
ArbitrateAnyStatus(caller, attestationId, challengeSucceeded) ==
    LET call(err) == AttestCall("arbitrate", err)
        att == attestations[attestationId]
        slashAmount == MulDiv(att.bondAmount, slashPercentage, 10000)
        refundAmount == att.bondAmount - slashAmount
        slashed == BondTransfer(bondBalance, RegistryContract, att.challenger, slashAmount)
        refunded == BondTransfer(slashed, RegistryContract, att.attester, refundAmount)
    IN IF caller \notin ArbiterRole
       THEN AttestRevert(call("AccessControlUnauthorizedAccount"))
       ELSE IF challengeSucceeded
       THEN IF MulOverflows(att.bondAmount, slashPercentage)
            THEN AttestRevert(call("Panic(0x11)"))
            ELSE IF ~BondTransferOk(RegistryContract, slashAmount + refundAmount)
            THEN AttestRevert(call("ERC20InsufficientBalance"))
            ELSE /\ attestations' = [attestations EXCEPT ![attestationId] =
                         [att EXCEPT !.status = "Slashed"]]
                 /\ attesterSlashCount' = [attesterSlashCount EXCEPT ![att.attester] = @ + 1]
                 /\ challengerWinCount' = [challengerWinCount EXCEPT ![att.challenger] = @ + 1]
                 /\ bondBalance' = refunded
                 /\ attestCall' = call("")
                 /\ UNCHANGED <<attestationIds, attesterValidCount, attestConfig>>
       ELSE /\ attestations' = [attestations EXCEPT ![attestationId] =
                    [att EXCEPT !.status = "Validated"]]
            /\ attesterValidCount' = [attesterValidCount EXCEPT ![att.attester] = @ + 1]
            /\ attestCall' = call("")
            /\ UNCHANGED <<attestationIds, attesterSlashCount, challengerWinCount,
                           bondBalance, attestConfig>>

\* arbitrate without onlyRole(ARBITER_ROLE)
ArbitrateNoRole(caller, attestationId, challengeSucceeded) ==
    LET call(err) == AttestCall("arbitrate", err)
        att == attestations[attestationId]
        slashAmount == MulDiv(att.bondAmount, slashPercentage, 10000)
        refundAmount == att.bondAmount - slashAmount
        slashed == BondTransfer(bondBalance, RegistryContract, att.challenger, slashAmount)
        refunded == BondTransfer(slashed, RegistryContract, att.attester, refundAmount)
    IN IF att.status # "Challenged"
       THEN AttestRevert(call("Not in challenge"))
       ELSE IF challengeSucceeded
       THEN IF MulOverflows(att.bondAmount, slashPercentage)
            THEN AttestRevert(call("Panic(0x11)"))
            ELSE IF ~BondTransferOk(RegistryContract, slashAmount + refundAmount)
            THEN AttestRevert(call("ERC20InsufficientBalance"))
            ELSE /\ attestations' = [attestations EXCEPT ![attestationId] =
                         [att EXCEPT !.status = "Slashed"]]
                 /\ attesterSlashCount' = [attesterSlashCount EXCEPT ![att.attester] = @ + 1]
                 /\ challengerWinCount' = [challengerWinCount EXCEPT ![att.challenger] = @ + 1]
                 /\ bondBalance' = refunded
                 /\ attestCall' = call("")
                 /\ UNCHANGED <<attestationIds, attesterValidCount, attestConfig>>
       ELSE /\ attestations' = [attestations EXCEPT ![attestationId] =
                    [att EXCEPT !.status = "Validated"]]
            /\ attesterValidCount' = [attesterValidCount EXCEPT ![att.attester] = @ + 1]
            /\ attestCall' = call("")
            /\ UNCHANGED <<attestationIds, attesterSlashCount, challengerWinCount,
                           bondBalance, attestConfig>>

Arbitrate(caller, attestationId, challengeSucceeded) ==
    LET call(err) == AttestCall("arbitrate", err)
        att == attestations[attestationId]
        slashAmount == MulDiv(att.bondAmount, slashPercentage, 10000)
        refundAmount == att.bondAmount - slashAmount
        slashed == BondTransfer(bondBalance, RegistryContract, att.challenger, slashAmount)
        refunded == BondTransfer(slashed, RegistryContract, att.attester, refundAmount)
    IN IF caller \notin ArbiterRole
       THEN AttestRevert(call("AccessControlUnauthorizedAccount"))
       ELSE IF att.status # "Challenged"
       THEN AttestRevert(call("Not in challenge"))
       ELSE IF challengeSucceeded
       THEN IF MulOverflows(att.bondAmount, slashPercentage)
            THEN AttestRevert(call("Panic(0x11)"))
            ELSE IF ~BondTransferOk(RegistryContract, slashAmount + refundAmount)
            THEN AttestRevert(call("ERC20InsufficientBalance"))
            ELSE /\ attestations' = [attestations EXCEPT ![attestationId] =
                         [att EXCEPT !.status = "Slashed"]]
                 /\ attesterSlashCount' = [attesterSlashCount EXCEPT ![att.attester] = @ + 1]
                 /\ challengerWinCount' = [challengerWinCount EXCEPT ![att.challenger] = @ + 1]
                 /\ bondBalance' = refunded
                 /\ attestCall' = call("")
                 /\ UNCHANGED <<attestationIds, attesterValidCount, attestConfig>>
       ELSE /\ attestations' = [attestations EXCEPT ![attestationId] =
                    [att EXCEPT !.status = "Validated"]]
            /\ attesterValidCount' = [attesterValidCount EXCEPT ![att.attester] = @ + 1]
            /\ attestCall' = call("")
            /\ UNCHANGED <<attestationIds, attesterSlashCount, challengerWinCount,
                           bondBalance, attestConfig>>

\* validate without the require on the deadline
ValidateEarly(caller, attestationId) ==
    LET call(err) == AttestCall("validate", err)
        att == attestations[attestationId]
    IN IF att.status # "Pending"
       THEN AttestRevert(call("Not pending"))
       ELSE /\ attestations' = [attestations EXCEPT ![attestationId] =
                    [att EXCEPT !.status = "Validated"]]
            /\ attesterValidCount' = [attesterValidCount EXCEPT ![att.attester] = @ + 1]
            /\ attestCall' = call("")
            /\ UNCHANGED <<attestationIds, attesterSlashCount, challengerWinCount,
                           bondBalance, attestConfig>>

\* validate without the require on the status
ValidateAnyStatus(caller, attestationId) ==
    LET call(err) == AttestCall("validate", err)
        att == attestations[attestationId]
    IN IF ~(now > att.challengeDeadline)
       THEN AttestRevert(call("Challenge period not ended"))
       ELSE /\ attestations' = [attestations EXCEPT ![attestationId] =
                    [att EXCEPT !.status = "Validated"]]
            /\ attesterValidCount' = [attesterValidCount EXCEPT ![att.attester] = @ + 1]
            /\ attestCall' = call("")
            /\ UNCHANGED <<attestationIds, attesterSlashCount, challengerWinCount,
                           bondBalance, attestConfig>>

Validate(caller, attestationId) ==
    LET call(err) == AttestCall("validate", err)
        att == attestations[attestationId]
    IN IF att.status # "Pending"
       THEN AttestRevert(call("Not pending"))
       ELSE IF ~(now > att.challengeDeadline)
       THEN AttestRevert(call("Challenge period not ended"))
       ELSE /\ attestations' = [attestations EXCEPT ![attestationId] =
                    [att EXCEPT !.status = "Validated"]]
            /\ attesterValidCount' = [attesterValidCount EXCEPT ![att.attester] = @ + 1]
            /\ attestCall' = call("")
            /\ UNCHANGED <<attestationIds, attesterSlashCount, challengerWinCount,
                           bondBalance, attestConfig>>

\* withdrawBond leaving the record as it was
WithdrawBondKeepRecord(caller, attestationId) ==
    LET call(err) == AttestCall("withdrawBond", err)
        att == attestations[attestationId]
        amount == att.bondAmount
    IN IF caller # att.attester
       THEN AttestRevert(call("Not attester"))
       ELSE IF att.status # "Validated"
       THEN AttestRevert(call("Not validated"))
       ELSE IF ~(att.bondAmount > 0)
       THEN AttestRevert(call("No bond"))
       ELSE IF ~BondTransferOk(RegistryContract, amount)
       THEN AttestRevert(call("ERC20InsufficientBalance"))
       ELSE /\ attestations' = [attestations EXCEPT ![attestationId] =
                    att]
            /\ bondBalance' = BondTransfer(bondBalance, RegistryContract, caller, amount)
            /\ attestCall' = call("")
            /\ UNCHANGED <<attestationIds, attesterValidCount, attesterSlashCount,
                           challengerWinCount, attestConfig>>

WithdrawBond(caller, attestationId) ==
    LET call(err) == AttestCall("withdrawBond", err)
        att == attestations[attestationId]
        amount == att.bondAmount
    IN IF caller # att.attester
       THEN AttestRevert(call("Not attester"))
       ELSE IF att.status # "Validated"
       THEN AttestRevert(call("Not validated"))
       ELSE IF ~(att.bondAmount > 0)
       THEN AttestRevert(call("No bond"))
       ELSE IF ~BondTransferOk(RegistryContract, amount)
       THEN AttestRevert(call("ERC20InsufficientBalance"))
       ELSE /\ attestations' = [attestations EXCEPT ![attestationId] =
                    [att EXCEPT !.bondAmount = 0, !.status = "Withdrawn"]]
            /\ bondBalance' = BondTransfer(bondBalance, RegistryContract, caller, amount)
            /\ attestCall' = call("")
            /\ UNCHANGED <<attestationIds, attesterValidCount, attesterSlashCount,
                           challengerWinCount, attestConfig>>

GetAttestation(attestationId) == attestations[attestationId]

GetTotalAttestations == Len(attestationIds)

SetChallengePeriod(caller, _period) ==
    LET call(err) == AttestCall("setChallengePeriod", err)
    IN IF caller \notin AttestAdminRole
       THEN AttestRevert(call("AccessControlUnauthorizedAccount"))
       ELSE /\ challengePeriod' = _period
            /\ attestCall' = call("")
            /\ UNCHANGED <<attestState, minBondAmount, slashPercentage>>

SetSlashPercentage(caller, _percentage) ==
    LET call(err) == AttestCall("setSlashPercentage", err)
    IN IF caller \notin AttestAdminRole
       THEN AttestRevert(call("AccessControlUnauthorizedAccount"))
       ELSE IF ~(_percentage <= 10000)
       THEN AttestRevert(call("Invalid percentage"))
       ELSE /\ slashPercentage' = _percentage
            /\ attestCall' = call("")
            /\ UNCHANGED <<attestState, minBondAmount, challengePeriod>>

\* inputs: content hashes, bonds (none, below the minimum, the funds of an
\* account), configurations the admin sets (the last percentage is invalid)
ContentHashes == {ZeroHash, ContentHash}
BondAmounts == {0, DeployMinBondAmount - 1, BondFunds}
ChallengePeriods == {0, DeployChallengePeriod}
SlashPercentages == {DeploySlashPercentage, 10000, 10001}

\* the never-created ids validate is tried on are counted
Created(attestationId) == attestations[attestationId].timestamp # 0

ExecSubmitAttestation ==
    /\ \E caller \in Attesters, contentHash \in ContentHashes, bondAmount \in BondAmounts :
          SubmitAttestation(caller, contentHash, bondAmount)
    /\ attestCall'.err = "" => Len(attestationIds) < MaxAttestations
    /\ UNCHANGED <<distVars, epochVars, registryVars, treasuryVars,
                   generatorVars, sessionVars>>

ExecChallenge ==
    /\ \E caller \in Accounts, attestationId \in AttestationIdSpace :
          Challenge(caller, attestationId, ReasonHash)
    /\ UNCHANGED <<distVars, epochVars, registryVars, treasuryVars,
                   generatorVars, sessionVars>>

ExecArbitrate ==
    /\ \E caller \in Arbiters, attestationId \in AttestationIdSpace,
          challengeSucceeded \in BOOLEAN :
            Arbitrate(caller, attestationId, challengeSucceeded)
    /\ UNCHANGED <<distVars, epochVars, registryVars, treasuryVars,
                   generatorVars, sessionVars>>

ExecValidate ==
    /\ \E caller \in Accounts, attestationId \in AttestationIdSpace :
          /\ Validate(caller, attestationId)
          /\ (attestCall'.err = "" /\ ~Created(attestationId))
                => attesterValidCount[ZeroAddress] < MaxStrayValidations
    /\ UNCHANGED <<distVars, epochVars, registryVars, treasuryVars,
                   generatorVars, sessionVars>>

ExecWithdrawBond ==
    /\ \E caller \in Accounts, attestationId \in AttestationIdSpace :
          WithdrawBond(caller, attestationId)
    /\ UNCHANGED <<distVars, epochVars, registryVars, treasuryVars,
                   generatorVars, sessionVars>>

ExecSetChallengePeriod ==
    /\ \E caller \in Arbiters, _period \in ChallengePeriods :
          SetChallengePeriod(caller, _period)
    /\ UNCHANGED <<distVars, epochVars, registryVars, treasuryVars,
                   generatorVars, sessionVars>>

ExecSetSlashPercentage ==
    /\ \E caller \in Arbiters, _percentage \in SlashPercentages :
          SetSlashPercentage(caller, _percentage)
    /\ UNCHANGED <<distVars, epochVars, registryVars, treasuryVars,
                   generatorVars, sessionVars>>

\* a block is mined later
AttestTick ==
    /\ now < MaxAttestTime
    /\ now' = now + 1
    /\ attestCall' = AttestCall("none", "")
    /\ UNCHANGED <<attestState, attestConfig>>
    /\ UNCHANGED <<distVars, epochState, epochCall, settling, registryVars, treasuryVars,
                   generatorVars, sessionVars>>

NextAttest ==
    \/ AttestTick
    \/ ExecSubmitAttestation
    \/ ExecChallenge
    \/ ExecArbitrate
    \/ ExecValidate
    \/ ExecWithdrawBond
    \/ ExecSetChallengePeriod
    \/ ExecSetSlashPercentage

SpecAttest == Init /\ [][NextAttest]_vars

\* The registry under fair scheduling: blocks keep being mined, and the
\* attester and the arbiter make the calls open to them.  An attestation is
\* submitted while its challenge deadline falls within the clock of the model.
ExecSubmitAttestationInTime ==
    /\ ExecSubmitAttestation
    /\ attestCall'.err = "" => now + challengePeriod < MaxAttestTime

\* validate called by the attester of the attestation, once it can succeed
ValidateByAttester(attestationId) ==
    /\ Created(attestationId)
    /\ Validate(attestations[attestationId].attester, attestationId)
    /\ attestCall'.err = ""
    /\ UNCHANGED <<distVars, epochVars, registryVars, treasuryVars, generatorVars,
                   sessionVars>>

\* withdrawBond called by the attester of the attestation, once it can succeed
WithdrawBondByAttester(attestationId) ==
    /\ Created(attestationId)
    /\ WithdrawBond(attestations[attestationId].attester, attestationId)
    /\ attestCall'.err = ""
    /\ UNCHANGED <<distVars, epochVars, registryVars, treasuryVars, generatorVars,
                   sessionVars>>

\* arbitrate called by the arbiter with either decision, once it can succeed
ArbitrateByArbiter(attestationId) ==
    /\ \E caller \in ArbiterRole, challengeSucceeded \in BOOLEAN :
          Arbitrate(caller, attestationId, challengeSucceeded)
    /\ attestCall'.err = ""
    /\ UNCHANGED <<distVars, epochVars, registryVars, treasuryVars, generatorVars,
                   sessionVars>>

NextAttestFair ==
    \/ AttestTick
    \/ ExecSubmitAttestationInTime
    \/ ExecChallenge
    \/ ExecArbitrate
    \/ ExecValidate
    \/ ExecWithdrawBond
    \/ ExecSetChallengePeriod
    \/ ExecSetSlashPercentage

AttestFairness ==
    /\ WF_vars(AttestTick)
    /\ \A attestationId \in AttestationIdSpace :
          /\ WF_vars(ValidateByAttester(attestationId))
          /\ WF_vars(WithdrawBondByAttester(attestationId))
          /\ WF_vars(ArbitrateByArbiter(attestationId))

SpecAttestFair == Init /\ [][NextAttestFair]_vars /\ AttestFairness

----------------------------------------------------------------------------
(* MerkleGenerator on its own: generate over reward lists with unique      *)
(* addresses, verify on the tree generated last                            *)

GeneratorInputs ==
    {<<>>}
    \cup UNION {{[i \in 1..n |-> [address |-> f[i], amount |-> x[i]]] :
                    f \in {g \in [1..n -> RewardAccounts] :
                              \A i, j \in 1..n : i # j => g[i] # g[j]},
                    x \in [1..n -> RewardAmounts]} :
                n \in 1..NumRewardAccounts}

VerifyAmounts == 0..(MaxRewardAmount + 1)

\* the proofs of the tree generated last, and the empty proof
VerifyProofs == {<<>>} \cup {GetProof(genResult, a) : a \in DOMAIN genResult.proofs}

ExecGenerate ==
    /\ \E rewards \in GeneratorInputs :
          /\ genRewards' = rewards
          /\ genResult' = Generate(rewards)
    /\ genVerify' = NoVerify
    /\ UNCHANGED <<distVars, epochVars, registryVars, attestVars, treasuryVars,
                   sessionVars>>

ExecVerify ==
    /\ \E address \in RewardAccounts, amount \in VerifyAmounts, proof \in VerifyProofs :
          genVerify' = [op |-> "verify", address |-> address, amount |-> amount,
                        proof |-> proof,
                        ret |-> Verify(genResult.root, address, amount, proof)]
    /\ UNCHANGED <<genRewards, genResult>>
    /\ UNCHANGED <<distVars, epochVars, registryVars, attestVars, treasuryVars,
                   sessionVars>>

NextGenerator ==
    \/ ExecGenerate
    \/ ExecVerify

SpecGenerator == Init /\ [][NextGenerator]_vars

----------------------------------------------------------------------------
(* XsrnSessionManager: session keys that authorize USDC payments within a  *)
(* single limit and a daily limit, executed by the relayer                 *)

SessionManagerOwner == {Admin}

SessionRevert(call) ==
    /\ sessionCall' = call
    /\ UNCHANGED sessionState

\* keccak256(abi.encodePacked(sessionId, to, amount, paymentId, block.chainid))
MessageHash(sessionId, to, amount, paymentId) ==
    Keccak256(<<"packed", sessionId, to, amount, paymentId, "chainid">>)

\* MessageHashUtils.toEthSignedMessageHash
ToEthSignedMessageHash(messageHash) == Keccak256(<<"eth-signed", messageHash>>)

\* the signature of key over a hash, and ECDSA.recover
Sign(key, hash) == <<"sig", key, hash>>
Recover(hash, signature) == IF signature[3] = hash THEN signature[2] ELSE UnknownSigner

\* the payment authorization a key signs for (sessionId, to, amount, paymentId)
Authorization(key, sessionId, to, amount, paymentId) ==
    Sign(key, ToEthSignedMessageHash(MessageHash(sessionId, to, amount, paymentId)))

SetRelayer(caller, _relayer) ==
    LET call(err) == SessionCall("setRelayer", err)
    IN IF caller \notin SessionManagerOwner
       THEN SessionRevert(call("OwnableUnauthorizedAccount"))
       ELSE /\ relayer' = _relayer
            /\ sessionCall' = call("")
            /\ UNCHANGED <<sessions, userSessions, usdcBalance, payments>>

CreateSession(caller, signer, singleLimit, dailyLimit, expiry) ==
    LET call(err) == SessionCall("createSession", err)
        sessionId == SessionId(caller, signer, now)
    IN IF signer = ZeroAddress
       THEN SessionRevert(call("Invalid signer"))
       ELSE IF ~(expiry > now)
       THEN SessionRevert(call("Invalid expiry"))
       ELSE IF ~(dailyLimit >= singleLimit)
       THEN SessionRevert(call("Daily limit must be >= single limit"))
       ELSE /\ sessions' = [sessions EXCEPT ![sessionId] =
                               Session(signer, caller, singleLimit, dailyLimit, 0, expiry,
                                       now \div OneDay, TRUE)]
            /\ userSessions' = [userSessions EXCEPT ![caller] = Append(@, sessionId)]
            /\ sessionCall' = call("")
            /\ UNCHANGED <<relayer, usdcBalance, payments>>

RevokeSession(caller, sessionId) ==
    LET call(err) == SessionCall("revokeSession", err)
    IN IF sessions[sessionId].owner # caller
       THEN SessionRevert(call("Not session owner"))
       ELSE IF ~sessions[sessionId].isActive
       THEN SessionRevert(call("Session not active"))
       ELSE /\ sessions' = [sessions EXCEPT ![sessionId].isActive = FALSE]
            /\ sessionCall' = call("")
            /\ UNCHANGED <<userSessions, relayer, usdcBalance, payments>>

\* usdcToken.safeTransferFrom(from, to, amount)
UsdcTransfer(balances, from, to, amount) ==
    [h \in UsdcHolders |->
        IF h = from /\ h = to THEN balances[h]
        ELSE IF h = from THEN balances[h] - amount
        ELSE IF h = to THEN balances[h] + amount
        ELSE balances[h]]

ExecuteWithSession(caller, sessionId, to, amount, paymentId, signature) ==
    LET call(err) == SessionCall("executeWithSession", err)
        session == sessions[sessionId]
        currentDate == now \div OneDay
        reset == currentDate > session.lastResetDate
        usedToday == IF reset THEN 0 ELSE session.usedToday
        lastResetDate == IF reset THEN currentDate ELSE session.lastResetDate
        ethSignedHash == ToEthSignedMessageHash(MessageHash(sessionId, to, amount, paymentId))
    IN IF caller # relayer
       THEN SessionRevert(call("Only relayer"))
       ELSE IF ~session.isActive
       THEN SessionRevert(call("Session not active"))
       ELSE IF ~(session.expiry > now)
       THEN SessionRevert(call("Session expired"))
       ELSE IF ~(amount <= session.singleLimit)
       THEN SessionRevert(call("Exceeds single limit"))
       ELSE IF ~(usedToday + amount <= session.dailyLimit)
       THEN SessionRevert(call("Exceeds daily limit"))
       ELSE IF Recover(ethSignedHash, signature) # session.signer
       THEN SessionRevert(call("Invalid signature"))
       ELSE IF usdcBalance[session.owner] < amount
       THEN SessionRevert(call("ERC20InsufficientBalance"))
       ELSE /\ sessions' = [sessions EXCEPT ![sessionId] =
                               [session EXCEPT !.usedToday = usedToday + amount,
                                               !.lastResetDate = lastResetDate]]
            /\ usdcBalance' = UsdcTransfer(usdcBalance, session.owner, to, amount)
            /\ payments' = Append(payments, <<sessionId, to, amount, paymentId>>)
            /\ sessionCall' = call("")
            /\ UNCHANGED <<userSessions, relayer>>

GetUserSessions(user) == userSessions[user]

GetSession(sessionId) == sessions[sessionId]

\* inputs: who calls, the limits (single, daily; the first pair is invalid) and
\* lifetimes of the sessions created, the amounts paid, and the signatures a
\* relayer can present with a payment: authorizations of that payment or of
\* the same payment with another amount, signed by the session key or another
\* key
SessionCallers == SessionOwners \cup {RelayerAccount}
SessionLimits == {<<2, 1>>, <<1, 2>>, <<2, 2>>}
SessionLifetimes == {0, 2}
PaymentAmounts == 1..2
Signatures(sessionId, to, paymentId) ==
    {Authorization(key, sessionId, to, amount, paymentId) :
        key \in {SessionKey, OtherKey}, amount \in PaymentAmounts}

ExecSetRelayer ==
    /\ \E caller \in {Admin, RelayerAccount}, _relayer \in {ZeroAddress, RelayerAccount} :
          SetRelayer(caller, _relayer)
    /\ UNCHANGED <<distVars, epochVars, registryVars, attestVars, treasuryVars,
                   generatorVars>>

ExecCreateSession ==
    /\ \E caller \in SessionOwners, signer \in SessionSigners, limits \in SessionLimits,
          lifetime \in SessionLifetimes :
            CreateSession(caller, signer, limits[1], limits[2], now + lifetime)
    /\ sessionCall'.err = "" => \A o \in SessionOwners : Len(userSessions[o]) < MaxSessions
    /\ UNCHANGED <<distVars, epochVars, registryVars, attestVars, treasuryVars,
                   generatorVars>>

ExecRevokeSession ==
    /\ \E caller \in SessionOwners \cup Payees, sessionId \in SessionIdSpace :
          RevokeSession(caller, sessionId)
    /\ UNCHANGED <<distVars, epochVars, registryVars, attestVars, treasuryVars,
                   generatorVars>>

ExecExecuteWithSession ==
    /\ \E caller \in SessionCallers, sessionId \in SessionIdSpace, to \in Payees,
          amount \in PaymentAmounts, paymentId \in SessionPaymentIds :
            \E signature \in Signatures(sessionId, to, paymentId) :
                ExecuteWithSession(caller, sessionId, to, amount, paymentId, signature)
    /\ UNCHANGED <<distVars, epochVars, registryVars, attestVars, treasuryVars,
                   generatorVars>>

\* a block is mined a day later
SessionTick ==
    /\ now < MaxSessionTime
    /\ now' = now + 1
    /\ sessionCall' = SessionCall("none", "")
    /\ UNCHANGED sessionState
    /\ UNCHANGED <<distVars, epochState, epochCall, settling, registryVars, attestVars,
                   treasuryVars, generatorVars>>

NextSession ==
    \/ SessionTick
    \/ ExecSetRelayer
    \/ ExecCreateSession
    \/ ExecRevokeSession
    \/ ExecExecuteWithSession

SpecSession == Init /\ [][NextSession]_vars

----------------------------------------------------------------------------
(* The four contracts as deployed side by side, each taking calls from the *)
(* holder of its roles and from another account.  A behaviour follows the  *)
(* calls made to one of them.                                              *)

AttestationRegistryUntouched == attestCall = AttestCall("constructor", "")
EpochManagerUntouched == epochCall = EpochCall("constructor", "")
ReceiptRegistryUntouched == registryCall = RegistryCall("constructor", "")
MerkleDistributorUntouched == last = Result("constructor", "", 0)

NextAccess ==
    \/ /\ EpochManagerUntouched /\ ReceiptRegistryUntouched /\ MerkleDistributorUntouched
       /\ NextAttest
    \/ /\ AttestationRegistryUntouched /\ ReceiptRegistryUntouched
       /\ MerkleDistributorUntouched
       /\ NextEpoch
    \/ /\ AttestationRegistryUntouched /\ EpochManagerUntouched
       /\ MerkleDistributorUntouched
       /\ NextRegistry
    \/ /\ AttestationRegistryUntouched /\ EpochManagerUntouched
       /\ ReceiptRegistryUntouched
       /\ DirectSetMerkleRoot

SpecAccess == Init /\ [][NextAccess]_vars

----------------------------------------------------------------------------
(* Properties of the Claim Ledger *)

\* the key, amount and proof of the single-entry call being executed
CallKey == <<pending.epochIds[1], pending.token, pending.account>>
CallRoot == epochMerkleRoots[<<pending.epochIds[1], pending.token>>]
CallAmount == pending.amounts[1]
CallProof == pending.merkleProofs[1]

\* (account, amount) is an entry of the reward list
IsEntry(rewards, account, amount) ==
    \E i \in 1..Len(rewards) :
        rewards[i].address = account /\ rewards[i].amount = amount

\* C1: for every (epochId, token, account) at most one entry is ever paid out,
\* whatever claim and claimMultiple calls are made, and a claim call on a key
\* that is already marked claimed reverts with "Already claimed" and changes
\* no state.
C1_ClaimedAtMostOnce ==
    [][/\ \A k \in Keys : Len(claimedEvents'[k]) <= 1
       /\ (pending.op = "claim" /\ claimed[CallKey])
            => (last'.err = "Already claimed" /\ UNCHANGED ledger)]_vars

C1_Witness ==
    /\ last.op = "claim"
    /\ last.err = "Already claimed"
    /\ \E k \in Keys : claimed[k] /\ Len(claimedEvents[k]) = 1

\* C2: a successful claim marks the caller's key claimed, adds exactly amount
\* to totalClaimed[caller][token] and moves exactly amount from the treasury
\* to the caller, in one step; a claim that reverts, in particular because
\* the treasury transfer fails, leaves flag, total and balances as they were.
C2_ClaimAtomic ==
    [][pending.op = "claim" =>
        LET a == pending.account
            t == pending.token
        IN /\ IF last'.err = ""
              THEN /\ ~claimed[CallKey]
                   /\ claimed' = [claimed EXCEPT ![CallKey] = TRUE]
                   /\ totalClaimed' =
                         [totalClaimed EXCEPT ![<<a, t>>] = @ + CallAmount]
                   /\ balanceOf'[t][Treasury] = balanceOf[t][Treasury] - CallAmount
                   /\ balanceOf'[t][a] = balanceOf[t][a] + CallAmount
                   /\ last'.paid = CallAmount
              ELSE UNCHANGED ledger
           /\ (/\ CanClaim(pending.epochIds[1], t, a, CallAmount, CallProof)
               /\ balanceOf[t][Treasury] < CallAmount)
                => last'.err = "SafeERC20FailedOperation"]_vars

C2_Witness ==
    /\ last.op = "claim"
    /\ last.err = "SafeERC20FailedOperation"
    /\ \E k \in Keys : ~claimed[k] /\ epochMerkleRoots[<<k[1], k[2]>>] \in PackedRoots

\* C3: with the root of a commitment over a reward list recorded for
\* (epochId, token), a claim by account A for amount x succeeds only if (A, x)
\* is an entry of the list; a claim on an unclaimed key that names an amount
\* not committed for the caller, or presents a proof other than the caller's
\* own, reverts with "Invalid proof" and changes no state.
C3_OnlyCommittedEntries ==
    [][pending.op = "claim" =>
        \A rewards \in RewardLists :
            CallRoot \in {PackedRoot(rewards), Generate(rewards).root} =>
                /\ last'.err = "" => IsEntry(rewards, pending.account, CallAmount)
                /\ (/\ ~claimed[CallKey]
                    /\ ~(/\ IsEntry(rewards, pending.account, CallAmount)
                         /\ CallRoot = PackedRoot(rewards)
                         /\ CallProof = PackedProof(rewards, pending.account)))
                     => (last'.err = "Invalid proof" /\ UNCHANGED ledger)]_vars

C3_Witness ==
    /\ last.op = "claim"
    /\ last.err = "Invalid proof"
    /\ \E k \in Keys : ~claimed[k] /\ epochMerkleRoots[<<k[1], k[2]>>] \in PackedRoots

\* C4: a claim for an (epochId, token) without a recorded root reverts with
\* "Merkle root not set" for every account, amount and proof and changes no
\* state; no key of a pair without a recorded root is ever claimed or paid.
C4_RootNotSet ==
    [][/\ (pending.op = "claim" /\ CallRoot = ZeroHash)
            => (last'.err = "Merkle root not set" /\ UNCHANGED ledger)
       /\ \A k \in Keys :
            epochMerkleRoots'[<<k[1], k[2]>>] = ZeroHash
                => (~claimed'[k] /\ claimedEvents'[k] = <<>>)]_vars

C4_Witness ==
    /\ last.op = "claim"
    /\ last.err = "Merkle root not set"

\* C5: end to end, for a tree MerkleGenerator generates over a reward list
\* whose root is recorded for (epochId, token), the claim of a member with its
\* committed amount and the proof getProof returns succeeds and pays that
\* amount (the key being unclaimed and the treasury funded).
C5_EndToEnd ==
    [][(/\ pending.op = "claim"
        /\ ~claimed[CallKey]
        /\ TransferOk(pending.token, Treasury, CallAmount)
        /\ \E rewards \in RewardLists :
              /\ IsEntry(rewards, pending.account, CallAmount)
              /\ CallRoot = Generate(rewards).root
              /\ CallProof = GetProof(Generate(rewards), pending.account))
         => (last'.err = "" /\ last'.paid = CallAmount /\ claimed'[CallKey])]_vars

\* entries of a batch, for the sender and token of the call being executed
EntryKey(i) == <<pending.epochIds[i], pending.token, pending.account>>

EntryVerifies(i) ==
    LET merkleRoot == epochMerkleRoots[<<pending.epochIds[i], pending.token>>]
    IN /\ merkleRoot # ZeroHash
       /\ ProcessProof(pending.merkleProofs[i],
                       ContractLeaf(pending.account, pending.amounts[i]), 1) = merkleRoot

\* entry i is paid: unclaimed when the call begins, with a recorded root and a
\* valid proof, and no earlier entry of the batch is paid for the same epoch
EntryEligible(i) ==
    /\ ~claimed[EntryKey(i)]
    /\ EntryVerifies(i)
    /\ \A j \in 1..(i - 1) :
          pending.epochIds[j] = pending.epochIds[i] => ~EntryVerifies(j)

RECURSIVE SumOver(_, _)
SumOver(indices, amounts) ==
    IF indices = {} THEN 0
    ELSE LET i == CHOOSE i \in indices : TRUE
         IN amounts[i] + SumOver(indices \ {i}, amounts)

RECURSIVE SumSeq(_)
SumSeq(amounts) == IF amounts = <<>> THEN 0 ELSE Head(amounts) + SumSeq(Tail(amounts))

\* a well-formed batch: the three arrays have the same length
BatchCall ==
    /\ pending.op = "claimMultiple"
    /\ Len(pending.epochIds) = Len(pending.amounts)
    /\ Len(pending.epochIds) = Len(pending.merkleProofs)

BatchEligible == {i \in 1..Len(pending.epochIds) : EntryEligible(i)}

BatchTotal == SumOver(BatchEligible, pending.amounts)

\* the step skips the ineligible entries without failing, marks exactly the
\* eligible ones and pays their sum in one transfer
BatchSettled ==
    LET a == pending.account
        t == pending.token
    IN /\ last'.err = ""
       /\ last'.paid = BatchTotal
       /\ last'.skipped = Len(pending.epochIds) - Cardinality(BatchEligible)
       /\ \A k \in Keys :
             claimed'[k] = (claimed[k] \/ \E i \in BatchEligible : EntryKey(i) = k)
       /\ totalClaimed' = [totalClaimed EXCEPT ![<<a, t>>] = @ + BatchTotal]
       /\ balanceOf'[t][Treasury] = balanceOf[t][Treasury] - BatchTotal
       /\ balanceOf'[t][a] = balanceOf[t][a] + BatchTotal
       /\ BatchEligible = {} => UNCHANGED ledger

\* C6 as stated: claimMultiple skips, without failing the call, every entry
\* that is already claimed, lacks a root or fails verification, marks exactly
\* the remaining entries claimed and pays the caller their sum in a single
\* transfer; with no eligible entry it succeeds and changes nothing.
C6_AsStated ==
    [][BatchCall => BatchSettled]_vars

\* C6: claimMultiple skips, without failing, every entry that is already
\* claimed, lacks a root or fails verification; when the treasury can pay
\* the sum of the remaining entries it marks exactly those claimed and pays
\* the sum in one transfer (with no eligible entry it succeeds and changes
\* nothing); when the treasury cannot pay the sum the whole call reverts and
\* no entry is marked.
C6_BatchBestEffort ==
    [][BatchCall =>
        IF balanceOf[pending.token][Treasury] >= BatchTotal
        THEN BatchSettled
        ELSE last'.err = "SafeERC20FailedOperation" /\ UNCHANGED ledger]_vars

C6_Witness ==
    /\ last.op = "claimMultiple"
    /\ last.err = ""
    /\ last.paid > 0
    /\ last.skipped > 0

\* C7: canClaim and isClaimed change no state; canClaim returns true exactly
\* when the key is unclaimed, a root is recorded and the proof verifies, that
\* is exactly when claim with the same arguments passes its three checks; it
\* returns false right after a successful claim with the same arguments.
C7_ViewsAgreeWithClaim ==
    [][/\ pending.op \in {"canClaim", "isClaimed"} => (UNCHANGED ledger /\ last'.err = "")
       /\ pending.op = "isClaimed" => last'.ret = claimed[CallKey]
       /\ pending.op = "canClaim" =>
            last'.ret = (/\ ~claimed[CallKey]
                         /\ CallRoot # ZeroHash
                         /\ ProcessProof(CallProof,
                               ContractLeaf(pending.account, CallAmount), 1) = CallRoot)
       /\ pending.op = "claim" =>
            CanClaim(pending.epochIds[1], pending.token, pending.account,
                     CallAmount, CallProof)
                = (last'.err \in {"", "SafeERC20FailedOperation"})
       /\ (pending.op = "claim" /\ last'.err = "") =>
            \A e \in Epochs, t \in Tokens, a \in Accounts, x \in ClaimAmounts,
               p \in ProofInputs :
                pending = Call("claim", a, <<e>>, t, <<x>>, <<p>>, ZeroHash)
                    => ~(CanClaim(e, t, a, x, p))']_vars

C7_Witness ==
    /\ last.op = "canClaim"
    /\ last.ret
    /\ \E k \in Keys : claimed[k]

\* C8: a claimed flag never returns to false, totalClaimed never decreases,
\* and totalClaimed[account][token] is the sum of the amounts of the entries
\* paid out to the account for the token, which is what the account received.
C8_MonotonicTotals ==
    [][/\ \A k \in Keys : claimed[k] => claimed'[k]
       /\ \A at \in Accounts \X Tokens : totalClaimed'[at] >= totalClaimed[at]
       /\ \/ UNCHANGED <<totalClaimed, claimedEvents, balanceOf>>
          \/ \A a \in Accounts, t \in Tokens :
                /\ totalClaimed'[<<a, t>>] =
                      SumOver(Epochs, [e \in Epochs |-> SumSeq(claimedEvents'[<<e, t, a>>])])
                /\ totalClaimed'[<<a, t>>] = balanceOf'[t][a]]_vars

C8_Witness ==
    \E a \in Accounts, t \in Tokens :
        /\ \A e \in Epochs : claimed[<<e, t, a>>]
        /\ totalClaimed[<<a, t>>] = MaxEpoch * RewardOf(a)

\* the keys a call names
Names(call) ==
    {<<call.epochIds[j], call.token, call.account>> : j \in 1..Len(call.epochIds)}

\* the concurrently submitted calls that name key k
Naming(k) == {i \in 1..Len(mempool) : k \in Names(mempool[i])}

Payers(k) == {i \in Naming(k) : k \in outcome[i].paid}

\* call i found key k already claimed: claim failed, claimMultiple skipped it
Observed(i, k) ==
    /\ k \notin outcome[i].paid
    /\ outcome[i].err = (IF mempool[i].op = "claim" THEN "Already claimed" ELSE "")

Starved(i) == outcome[i].err = "SafeERC20FailedOperation"

AllExecuted == \A i \in 1..Len(mempool) : outcome[i] # Waiting

\* C9 as stated: of the calls with valid proofs submitted concurrently for a
\* key, in every interleaving exactly one pays the entry out and the others
\* observe the claimed flag (claim fails, claimMultiple skips).
C9_AsStated ==
    AllExecuted =>
        \A k \in Keys :
            Naming(k) # {} =>
                /\ Cardinality(Payers(k)) = 1
                /\ \A i \in Naming(k) \ Payers(k) : Observed(i, k)

\* C9: of the calls with valid proofs submitted concurrently for a key, in
\* every interleaving at most one pays the entry out, with one transfer; a
\* call executed while the key is claimed observes the flag (claim fails with
\* "Already claimed", claimMultiple skips the entry); a call executed while the
\* key is unclaimed pays it out unless the treasury cannot cover the call's
\* transfer, and then the call reverts and leaves the key unclaimed.  So
\* exactly one call pays unless every call naming the key found the treasury
\* short, and claims on other keys bear on a claim only through the treasury
\* balance they draw on.
C9_OnePayerPerKey ==
    [][/\ \A k \in Keys :
            /\ Cardinality(Payers(k))' <= 1
            /\ Len(claimedEvents'[k]) <= 1
            /\ AllExecuted' =>
                  \/ Naming(k) = {}
                  \/ /\ Cardinality(Payers(k))' = 1
                     /\ \A i \in Naming(k) \ Payers(k)' : Observed(i, k)' \/ Starved(i)'
                  \/ \A i \in Naming(k) : Starved(i)'
       /\ \A i \in 1..Len(mempool) :
            (outcome[i] = Waiting /\ outcome'[i] # Waiting) =>
                LET call == mempool[i]
                    due == {k \in Names(call) : ~claimed[k]}
                    sum == SumOver(due, [k \in due |-> RewardOf(call.account)])
                IN IF call.op = "claim" /\ due = {}
                   THEN outcome'[i] = [err |-> "Already claimed", paid |-> {}]
                   ELSE IF balanceOf[call.token][Treasury] >= sum
                   THEN outcome'[i] = [err |-> "", paid |-> due]
                   ELSE outcome'[i] = [err |-> "SafeERC20FailedOperation", paid |-> {}]]_vars

\* three calls for one key have run: one paid, one claim failed on the flag
\* and one batch skipped the entry
C9_Witness ==
    /\ AllExecuted
    /\ \E k \in Keys :
          /\ Cardinality(Naming(k)) >= 3
          /\ Cardinality(Payers(k)) = 1
          /\ \E i \in Naming(k) : mempool[i].op = "claim" /\ Observed(i, k)
          /\ \E i \in Naming(k) : mempool[i].op = "claimMultiple" /\ Observed(i, k)

\* C10: a root recorded for (epochId, token) is never replaced.
C10_RootNeverReplaced ==
    [][\A k \in Epochs \X Tokens :
          epochMerkleRoots[k] # ZeroHash => epochMerkleRoots'[k] = epochMerkleRoots[k]]_vars

----------------------------------------------------------------------------
(* Properties of the Epoch State Machine *)

\* C12: advanceEpoch succeeds exactly when now >= endTime of the current epoch
\* and the current epoch is finalized; before endTime it reverts with "Current
\* epoch not ended"; while the current epoch is not finalized it fails however
\* late it is called, with "Current epoch not finalized yet" once endTime has
\* passed; a failed advanceEpoch changes no state; canAdvanceEpoch returns
\* now >= endTime.
C12_AdvanceGuards ==
    [][/\ epochCall'.op = "advanceEpoch" =>
            LET ended == now >= epochs[currentEpochId].endTime
                finalized == epochs[currentEpochId].finalized
            IN /\ (epochCall'.err = "") = (ended /\ finalized)
               /\ ~ended => epochCall'.err = "Current epoch not ended"
               /\ (ended /\ ~finalized) =>
                     epochCall'.err = "Current epoch not finalized yet"
               /\ epochCall'.err # "" => UNCHANGED <<epochState, now>>
       /\ epochCall'.op = "canAdvanceEpoch" =>
            /\ epochCall'.ret = (now >= epochs[currentEpochId].endTime)
            /\ UNCHANGED <<epochState, now>>]_vars

\* advanceEpoch failed on the finalized flag long after the epoch ended
C12_Witness ==
    /\ epochCall.op = "advanceEpoch"
    /\ epochCall.err = "Current epoch not finalized yet"
    /\ now > epochs[currentEpochId].endTime

\* C13: finalizeEpoch succeeds at most once per epoch: a call by the operator
\* for an epoch that is already finalized, whatever root it carries and in
\* whatever order the calls are executed, reverts with "Already finalized" and
\* changes nothing; once an epoch is finalized its merkleRoot, totalRewards
\* and finalized flag never change.
C13_FinalizeOnce ==
    [][/\ \A c \in EpochCallers, e \in EpochIds, st \in Settlements :
            (/\ FinalizeEpoch(c, e, st[1], st[2])
             /\ c \in EpochOperatorRole
             /\ epochs[e].finalized)
                => (epochCall'.err = "Already finalized" /\ UNCHANGED epochState)
       /\ \A e \in EpochIds :
            epochs[e].finalized =>
                /\ epochs'[e].finalized
                /\ epochs'[e].merkleRoot = epochs[e].merkleRoot
                /\ epochs'[e].totalRewards = epochs[e].totalRewards]_vars

C13_Witness ==
    /\ epochCall.op = "finalizeEpoch"
    /\ epochCall.err = "Already finalized"
    /\ epochs[currentEpochId].finalized

\* C14: finalizeEpoch with the zero root fails and changes no epoch record,
\* with "Invalid merkle root" when the operator calls it for an epoch up to the
\* current one that is not finalized; finalizeEpoch with epochId above
\* currentEpochId fails and changes no epoch record, with "Invalid epoch" when
\* the operator calls it.
C14_FinalizeRejects ==
    [][\A c \in EpochCallers, e \in EpochIds, st \in Settlements :
          FinalizeEpoch(c, e, st[1], st[2]) =>
            /\ st[1] = ZeroHash =>
                  /\ epochCall'.err # ""
                  /\ UNCHANGED epochState
                  /\ (c \in EpochOperatorRole /\ e <= currentEpochId
                        /\ ~epochs[e].finalized)
                       => epochCall'.err = "Invalid merkle root"
            /\ e > currentEpochId =>
                  /\ epochCall'.err # ""
                  /\ UNCHANGED epochState
                  /\ c \in EpochOperatorRole => epochCall'.err = "Invalid epoch"]_vars

C14_Witness ==
    /\ epochCall.op = "finalizeEpoch"
    /\ epochCall.err = "Invalid merkle root"
    /\ ~epochs[currentEpochId].finalized

\* the record of an epoch id has been written
EpochWritten(id) == epochs[id] # ZeroEpoch

\* C15: currentEpochId >= 1, exactly the records 1..currentEpochId exist,
\* every epoch before the current one is finalized with a non-zero root, and
\* each epoch starts no earlier than the end of the one before it.
C15_EpochRecords ==
    /\ currentEpochId >= 1
    /\ \A id \in EpochIds : EpochWritten(id) = (id \in 1..currentEpochId)
    /\ \A id \in 1..(currentEpochId - 1) :
          /\ epochs[id].finalized
          /\ epochs[id].merkleRoot # ZeroHash
          /\ epochs[id + 1].startTime >= epochs[id].endTime

\* C16: a successful advanceEpoch raises currentEpochId by exactly 1 and
\* creates the record of the new id with startTime = now, endTime = now +
\* epochDuration, zero root, finalized = false and totalRewards = 0; every
\* other epoch record and epochDuration are unchanged.
C16_AdvanceOpensEpoch ==
    [][(epochCall'.op = "advanceEpoch" /\ epochCall'.err = "") =>
        /\ currentEpochId' = currentEpochId + 1
        /\ epochs'[currentEpochId'] =
              Epoch(currentEpochId + 1, now, now + epochDuration, ZeroHash, FALSE, 0)
        /\ \A id \in EpochIds \ {currentEpochId'} : epochs'[id] = epochs[id]
        /\ UNCHANGED <<epochDuration, now>>]_vars

\* an epoch was opened later than the one before it ended
C16_Witness ==
    /\ epochCall.op = "advanceEpoch"
    /\ epochCall.err = ""
    /\ currentEpochId > 1
    /\ epochs[currentEpochId].startTime = now
    /\ now > epochs[currentEpochId - 1].endTime

\* C17: an epoch becomes finalized only at a time now >= its endTime, never
\* while it is still active.
C17_FinalizedAfterEnd ==
    [][\A id \in EpochIds :
          (~epochs[id].finalized /\ epochs'[id].finalized) => now >= epochs[id].endTime]_vars

\* C18: setEpochDuration(d) fails unless MIN_EPOCH_DURATION <= d <=
\* MAX_EPOCH_DURATION (and succeeds then for the admin); a successful change
\* sets epochDuration and leaves every epoch record, the current one included,
\* unchanged; an epoch opened by a later advanceEpoch lasts the duration in
\* force when it is opened.
C18_DurationChange ==
    [][/\ \A c \in EpochCallers, d \in Durations :
            SetEpochDuration(c, d) =>
                LET valid == MIN_EPOCH_DURATION <= d /\ d <= MAX_EPOCH_DURATION
                IN /\ ~valid => (epochCall'.err # "" /\ UNCHANGED epochState)
                   /\ (valid /\ c \in EpochAdminRole) => epochCall'.err = ""
                   /\ epochCall'.err = "" =>
                         /\ epochDuration' = d
                         /\ UNCHANGED <<epochs, currentEpochId>>
       /\ (epochCall'.op = "advanceEpoch" /\ epochCall'.err = "") =>
            epochs'[currentEpochId'].endTime - epochs'[currentEpochId'].startTime
                = epochDuration]_vars

\* the duration was changed while the current epoch keeps the span it was
\* opened with
C18_Witness ==
    /\ epochCall.op = "setEpochDuration"
    /\ epochCall.err = ""
    /\ epochs[currentEpochId].endTime - epochs[currentEpochId].startTime # epochDuration

----------------------------------------------------------------------------
(* Properties of the settlement across the two contracts *)

\* C11: whenever MerkleDistributor holds a root for (epochId, token), epoch
\* epochId exists and is finalized in EpochManager with that same root.
C11_LedgerRootIsFinalizedRoot ==
    \A e \in Epochs, t \in Tokens :
        epochMerkleRoots[<<e, t>>] # ZeroHash =>
            /\ e \in 1..currentEpochId
            /\ epochs[e].finalized
            /\ epochs[e].merkleRoot = epochMerkleRoots[<<e, t>>]

----------------------------------------------------------------------------
(* Properties of the Receipt Registry *)

IsPrefix(a, b) == Len(a) <= Len(b) /\ SubSeq(b, 1, Len(a)) = a

\* the payment ids with a recorded receipt, and those tagged with an epoch
Recorded == {p \in PaymentIds : receipts[p] # ZeroReceipt}
RecordedIn(epochId) == {p \in Recorded : receipts[p].epochId = epochId}

\* C19: recordReceipt by the emitter with a paymentId that is already present
\* reverts with "Receipt already exists" and leaves the stored receipt, the id
\* lists and the epoch counters unchanged; a recorded receipt is never changed
\* or removed, and the id lists only grow at their end.
C19_ReceiptsAppendOnly ==
    [][/\ \A c \in RegistryCallers, p \in PaymentIds, pay \in Payments,
            e \in ReceiptEpochs, t \in Tokens :
            (/\ RecordReceipt(c, p, 1, 2, Admin, t, pay[1], pay[2], e, ZeroHash)
             /\ c \in EmitterRole
             /\ p \in Recorded)
                => (/\ registryCall'.err = "Receipt already exists"
                    /\ UNCHANGED registryState)
       /\ \A p \in Recorded : receipts'[p] = receipts[p]
       /\ IsPrefix(receiptIds, receiptIds')
       /\ \A e \in StatEpochs : IsPrefix(epochReceipts[e], epochReceipts'[e])]_vars

C19_Witness ==
    /\ registryCall.op = "recordReceipt"
    /\ registryCall.err = "Receipt already exists"
    /\ Recorded # {}

\* C20: for every epochId getEpochStats returns the number of recorded
\* receipts tagged with it, the sum of their amounts and the sum of their
\* protocol fees, all zero for an epoch without receipts; the per-epoch counts
\* sum to getTotalReceipts().
C20_EpochStats ==
    /\ \A e \in StatEpochs :
          /\ GetEpochStats(e) =
                <<Cardinality(RecordedIn(e)),
                  SumOver(RecordedIn(e), [p \in PaymentIds |-> receipts[p].amount]),
                  SumOver(RecordedIn(e), [p \in PaymentIds |-> receipts[p].protocolFee])>>
          /\ RecordedIn(e) = {} => GetEpochStats(e) = <<0, 0, 0>>
    /\ SumOver(StatEpochs, [e \in StatEpochs |-> GetEpochStats(e)[1]]) = GetTotalReceipts
    /\ registryCall.op = "getEpochStats" =>
          \E e \in StatEpochs : registryCall.ret = GetEpochStats(e)
    /\ registryCall.op = "getTotalReceipts" =>
          registryCall.ret = <<Cardinality(Recorded)>>

\* every payment is recorded, two of them in one epoch
C20_Witness ==
    /\ GetTotalReceipts = NumPayments
    /\ \E e \in ReceiptEpochs : GetEpochStats(e)[1] = 2 /\ GetEpochStats(e)[2] > GetEpochStats(e)[3]
    /\ GetEpochStats(0) = <<0, 0, 0>>
    /\ registryCall.op = "getEpochStats"

----------------------------------------------------------------------------
(* Properties of the treasury distribution *)

\* what a distribution of total pays to the account: the shares of the
\* recipient roles the account holds
ShareOf(account, total) ==
    LET w == (total * 4000) \div 10000
        o == (total * 3000) \div 10000
        p == (total * 2000) \div 10000
    IN (IF watcher = account THEN w ELSE 0)
       + (IF operator = account THEN o ELSE 0)
       + (IF publicGoods = account THEN p ELSE 0)
       + (IF securityReserve = account THEN total - w - o - p ELSE 0)

\* C21: a distributeRewards call that succeeds on a balance T pays the watcher
\* floor(T*4000/10000), the operator floor(T*3000/10000), public goods
\* floor(T*2000/10000) and the security reserve T minus those three; the last
\* share is never negative, the four payments sum to T and the treasury is
\* left with nothing.
C21_DistributionSplit ==
    [][\A caller \in TreasuryCallers, token \in Tokens :
          (DistributeRewards(caller, token) /\ treasuryCall'.err = "")
             => LET T == tokenBalance[token][TreasuryContract]
                    w == (T * 4000) \div 10000
                    o == (T * 3000) \div 10000
                    p == (T * 2000) \div 10000
                    r == T - w - o - p
                IN /\ T > 0
                   /\ r >= 0
                   /\ w + o + p + r = T
                   /\ tokenBalance'[token][TreasuryContract] = 0
                   /\ \A a \in TreasuryHolders \ {TreasuryContract} :
                         tokenBalance'[token][a] = tokenBalance[token][a] + ShareOf(a, T)
                   /\ SumBalances(tokenBalance'[token], TreasuryHolders)
                         = SumBalances(tokenBalance[token], TreasuryHolders)]_vars

\* a balance of 3 was distributed to four distinct recipients: 1, 0, 0 and
\* the remainder 2
C21_Witness ==
    /\ treasuryCall.op = "distributeRewards"
    /\ treasuryCall.err = ""
    /\ treasuryCall.ret = 3
    /\ <<watcher, operator, publicGoods, securityReserve>> = <<1, 2, 3, 4>>
    /\ tokenBalance["USDC"][1] = 1
    /\ tokenBalance["USDC"][4] = 2
    /\ tokenBalance["USDC"][TreasuryContract] = 0

----------------------------------------------------------------------------
(* Properties of the Attestation Registry *)

\* the record submitAttestation creates
Submitted(caller, contentHash, bondAmount) ==
    [attester |-> caller, contentHash |-> contentHash, bondAmount |-> bondAmount,
     timestamp |-> now, challengeDeadline |-> now + challengePeriod,
     status |-> "Pending", challenger |-> ZeroAddress, challengeReason |-> ZeroHash]

\* submitAttestation went through: the bond is escrowed from the caller
\* (nothing moves for a bond of 0) and the record is created under the id
SubmitAccepted(caller, contentHash, bondAmount) ==
    LET id == AttestationId(caller, contentHash, now)
    IN /\ attestCall'.err = ""
       /\ bondBalance'[caller] = bondBalance[caller] - bondAmount
       /\ bondBalance'[RegistryContract] = bondBalance[RegistryContract] + bondAmount
       /\ \A h \in BondHolders \ {caller, RegistryContract} :
             bondBalance'[h] = bondBalance[h]
       /\ attestations'[id] = Submitted(caller, contentHash, bondAmount)
       /\ \A other \in AttestationIdSpace \ {id} : attestations'[other] = attestations[other]
       /\ attestationIds' = Append(attestationIds, id)

\* submitAttestation failed: no bond moved, no record created
SubmitRejected ==
    /\ attestCall'.err # ""
    /\ UNCHANGED attestState

\* C22 as stated: submitAttestation fails, with no bond moved and no record
\* created, exactly when contentHash is zero, 0 < bondAmount < minBondAmount or
\* the derived id exists; in every other case it escrows the bond and creates
\* the Pending record.
C22_AsStated ==
    [][\A caller \in Attesters, contentHash \in ContentHashes, bondAmount \in BondAmounts :
          SubmitAttestation(caller, contentHash, bondAmount)
             => IF \/ contentHash = ZeroHash
                   \/ (0 < bondAmount /\ bondAmount < minBondAmount)
                   \/ attestations[AttestationId(caller, contentHash, now)].timestamp # 0
                THEN SubmitRejected
                ELSE SubmitAccepted(caller, contentHash, bondAmount)]_vars

\* C22: submitAttestation fails, with no bond moved and no record created,
\* when contentHash is zero, when 0 < bondAmount < minBondAmount, when the
\* derived id exists, or when the caller cannot cover a non-zero bond;
\* otherwise it escrows bondAmount from the caller (nothing for a bond of 0)
\* and creates a record with status Pending, attester = caller, no challenger
\* and challengeDeadline = now + challengePeriod.
C22_SubmitAttestation ==
    [][\A caller \in Attesters, contentHash \in ContentHashes, bondAmount \in BondAmounts :
          SubmitAttestation(caller, contentHash, bondAmount)
             => IF \/ contentHash = ZeroHash
                   \/ (0 < bondAmount /\ bondAmount < minBondAmount)
                   \/ attestations[AttestationId(caller, contentHash, now)].timestamp # 0
                   \/ (0 < bondAmount /\ bondBalance[caller] < bondAmount)
                THEN SubmitRejected
                ELSE SubmitAccepted(caller, contentHash, bondAmount)]_vars

\* a bonded attestation was just created: the bond sits in the registry
C22_Witness ==
    /\ attestCall.op = "submitAttestation"
    /\ attestCall.err = ""
    /\ bondBalance[RegistryContract] = BondFunds
    /\ \E id \in AttestationIdSpace :
          /\ attestations[id].bondAmount = BondFunds
          /\ attestations[id].status = "Pending"
          /\ attestations[id].timestamp = now

\* C23: challenge(id, reason) succeeds exactly when the attestation exists, is
\* Pending, now <= challengeDeadline and the caller is not the attester; on
\* success the status becomes Challenged, the challenger and the reason are
\* recorded and nothing else changes; in every other case (self-challenge
\* included) it fails and changes nothing.
C23_Challenge ==
    [][\A caller \in Accounts, id \in AttestationIdSpace :
          Challenge(caller, id, ReasonHash)
             => LET att == attestations[id]
                IN IF /\ att.timestamp # 0
                      /\ att.status = "Pending"
                      /\ now <= att.challengeDeadline
                      /\ caller # att.attester
                   THEN /\ attestCall'.err = ""
                        /\ attestations'[id] =
                              [attester |-> att.attester, contentHash |-> att.contentHash,
                               bondAmount |-> att.bondAmount, timestamp |-> att.timestamp,
                               challengeDeadline |-> att.challengeDeadline,
                               status |-> "Challenged", challenger |-> caller,
                               challengeReason |-> ReasonHash]
                        /\ \A other \in AttestationIdSpace \ {id} :
                              attestations'[other] = attestations[other]
                        /\ UNCHANGED <<attestationIds, attesterValidCount,
                                       attesterSlashCount, challengerWinCount, bondBalance>>
                   ELSE /\ attestCall'.err # ""
                        /\ UNCHANGED attestState]_vars

\* an attestation was just challenged by an account other than its attester,
\* on the last day of its challenge period
C23_Witness ==
    /\ attestCall.op = "challenge"
    /\ attestCall.err = ""
    /\ \E id \in AttestationIdSpace :
          /\ attestations[id].status = "Challenged"
          /\ attestations[id].challenger \in Accounts \ {attestations[id].attester}
          /\ attestations[id].challengeReason = ReasonHash
          /\ attestations[id].challengeDeadline = now
          /\ attestations[id].timestamp < now

\* the records other than id are left as they were
OthersUntouched(id) ==
    \A other \in AttestationIdSpace \ {id} : attestations'[other] = attestations[other]

\* the call failed and changed nothing
AttestRejected ==
    /\ attestCall'.err # ""
    /\ UNCHANGED attestState

\* C24: arbitrate(id, true) by an arbiter on a Challenged attestation with bond
\* B sets the status to Slashed, moves floor(B * slashPercentage / 10000) from
\* the registry to the challenger and B minus that amount to the attester (the
\* two sum to B), and increments the attester's slash count and the
\* challenger's win count by one each; nothing else changes.
C24_ArbitrateSlash ==
    [][\A caller \in ArbiterRole, id \in AttestationIdSpace :
          (Arbitrate(caller, id, TRUE) /\ attestations[id].status = "Challenged")
             => LET att == attestations[id]
                    B == att.bondAmount
                    slash == (B * slashPercentage) \div 10000
                    refund == B - slash
                IN /\ attestCall'.err = ""
                   /\ slash >= 0 /\ refund >= 0 /\ slash + refund = B
                   /\ attestations'[id] = [att EXCEPT !.status = "Slashed"]
                   /\ OthersUntouched(id)
                   /\ bondBalance'[att.challenger] = bondBalance[att.challenger] + slash
                   /\ bondBalance'[att.attester] = bondBalance[att.attester] + refund
                   /\ bondBalance'[RegistryContract] = bondBalance[RegistryContract] - B
                   /\ \A h \in BondHolders \ {att.challenger, att.attester, RegistryContract} :
                         bondBalance'[h] = bondBalance[h]
                   /\ attesterSlashCount' =
                         [attesterSlashCount EXCEPT ![att.attester] = @ + 1]
                   /\ challengerWinCount' =
                         [challengerWinCount EXCEPT ![att.challenger] = @ + 1]
                   /\ UNCHANGED <<attestationIds, attesterValidCount>>]_vars

\* a bond of BondFunds was slashed at 50%: the challenger holds the smaller
\* half on top of its funds, the attester got the larger half back
C24_Witness ==
    /\ attestCall.op = "arbitrate"
    /\ attestCall.err = ""
    /\ slashPercentage = 5000
    /\ \E id \in AttestationIdSpace :
          LET att == attestations[id]
          IN /\ att.status = "Slashed"
             /\ att.bondAmount = BondFunds
             /\ bondBalance[att.challenger] = BondFunds + (BondFunds \div 2)
             /\ bondBalance[att.attester] = BondFunds - (BondFunds \div 2)
             /\ attesterSlashCount[att.attester] = 1
             /\ challengerWinCount[att.challenger] = 1

\* C25: arbitrate(id, false) by an arbiter on a Challenged attestation sets the
\* status to Validated, increments the attester's valid count by one, moves no
\* token and leaves bondAmount in the record and in the registry; the
\* attester's withdrawBond on an attestation validated this way succeeds and
\* pays exactly that bond; arbitrate on an attestation that is not Challenged
\* fails and changes nothing.
C25_ArbitrateReject ==
    [][/\ \A caller \in Arbiters, id \in AttestationIdSpace, challengeSucceeded \in BOOLEAN :
            (Arbitrate(caller, id, challengeSucceeded)
                /\ attestations[id].status # "Challenged")
               => AttestRejected
       /\ \A caller \in ArbiterRole, id \in AttestationIdSpace :
            (Arbitrate(caller, id, FALSE) /\ attestations[id].status = "Challenged")
               => LET att == attestations[id]
                  IN /\ attestCall'.err = ""
                     /\ attestations'[id] = [att EXCEPT !.status = "Validated"]
                     /\ OthersUntouched(id)
                     /\ attesterValidCount' =
                           [attesterValidCount EXCEPT ![att.attester] = @ + 1]
                     /\ bondBalance'[RegistryContract] >= att.bondAmount
                     /\ UNCHANGED <<attestationIds, attesterSlashCount,
                                    challengerWinCount, bondBalance>>
       /\ \A id \in AttestationIdSpace :
            LET att == attestations[id]
            IN (/\ WithdrawBond(att.attester, id)
                /\ att.status = "Validated"
                /\ att.challenger # ZeroAddress
                /\ att.bondAmount > 0)
                  => /\ attestCall'.err = ""
                     /\ bondBalance'[att.attester] = bondBalance[att.attester] + att.bondAmount
                     /\ bondBalance'[RegistryContract] =
                           bondBalance[RegistryContract] - att.bondAmount]_vars

\* the attester of a challenged attestation the arbiter upheld withdrew its
\* bond and holds its funds again
C25_Witness ==
    /\ attestCall.op = "withdrawBond"
    /\ attestCall.err = ""
    /\ \E id \in AttestationIdSpace :
          LET att == attestations[id]
          IN /\ att.status = "Withdrawn"
             /\ att.challenger # ZeroAddress
             /\ attesterValidCount[att.attester] = 1
             /\ bondBalance[att.attester] = BondFunds
             /\ bondBalance[RegistryContract] = 0

\* validate / challenge would go through on the attestation now
CanValidate(id) ==
    ENABLED (\E caller \in Accounts : Validate(caller, id) /\ attestCall'.err = "")
CanChallenge(id) ==
    ENABLED (\E caller \in Accounts : Challenge(caller, id, ReasonHash) /\ attestCall'.err = "")

\* C26: validate(id) succeeds exactly when the record is Pending and
\* now > challengeDeadline, and challenge succeeds only with
\* now <= challengeDeadline, so that at no instant both can go through on the same
\* attestation; a validate that succeeds makes the status Validated, increments
\* the attester's valid count by one and changes nothing else, so that it
\* cannot succeed again on that attestation.
C26_ValidateAfterDeadline ==
    /\ [](\A id \in AttestationIdSpace : ~(CanValidate(id) /\ CanChallenge(id)))
    /\ [][/\ \A caller \in Accounts, id \in AttestationIdSpace :
               Validate(caller, id)
                  => LET att == attestations[id]
                     IN IF att.status = "Pending" /\ now > att.challengeDeadline
                        THEN /\ attestCall'.err = ""
                             /\ attestations'[id] = [att EXCEPT !.status = "Validated"]
                             /\ OthersUntouched(id)
                             /\ attesterValidCount' =
                                   [attesterValidCount EXCEPT ![att.attester] = @ + 1]
                             /\ UNCHANGED <<attestationIds, attesterSlashCount,
                                            challengerWinCount, bondBalance>>
                        ELSE AttestRejected
          /\ \A caller \in Accounts, id \in AttestationIdSpace :
               (Challenge(caller, id, ReasonHash) /\ attestCall'.err = "")
                  => now <= attestations[id].challengeDeadline]_vars

\* an attestation nobody challenged was validated after its deadline
C26_Witness ==
    /\ attestCall.op = "validate"
    /\ attestCall.err = ""
    /\ \E id \in AttestationIdSpace :
          LET att == attestations[id]
          IN /\ att.timestamp # 0
             /\ att.status = "Validated"
             /\ att.challenger = ZeroAddress
             /\ now > att.challengeDeadline
             /\ attesterValidCount[att.attester] = 1

\* C27: withdrawBond(id) succeeds exactly for the attester of a Validated
\* attestation with bondAmount > 0; it moves exactly the escrowed bond from
\* the registry to the attester and sets bondAmount to 0 and the status to
\* Withdrawn, so that a second withdrawal fails; no other operation changes
\* the bondAmount of a record that exists, so that what is withdrawn is what
\* was escrowed at submission.
C27_WithdrawBond ==
    [][/\ \A caller \in Accounts, id \in AttestationIdSpace :
            WithdrawBond(caller, id)
               => LET att == attestations[id]
                  IN IF /\ caller = att.attester
                        /\ att.status = "Validated"
                        /\ att.bondAmount > 0
                     THEN /\ attestCall'.err = ""
                          /\ attestations'[id] =
                                [att EXCEPT !.bondAmount = 0, !.status = "Withdrawn"]
                          /\ OthersUntouched(id)
                          /\ bondBalance'[caller] = bondBalance[caller] + att.bondAmount
                          /\ bondBalance'[RegistryContract] =
                                bondBalance[RegistryContract] - att.bondAmount
                          /\ \A h \in BondHolders \ {caller, RegistryContract} :
                                bondBalance'[h] = bondBalance[h]
                          /\ UNCHANGED <<attestationIds, attesterValidCount,
                                         attesterSlashCount, challengerWinCount>>
                     ELSE AttestRejected
       /\ \A id \in AttestationIdSpace :
            (attestations[id].timestamp # 0
                /\ attestations'[id].bondAmount # attestations[id].bondAmount)
               => /\ attestCall'.op = "withdrawBond"
                  /\ attestations[id].status = "Validated"
                  /\ attestations'[id].status = "Withdrawn"
                  /\ attestations'[id].bondAmount = 0]_vars

\* submit with a bond, time out, validate, withdraw: the attester holds its
\* funds again and the registry nothing
C27_Witness ==
    /\ attestCall.op = "withdrawBond"
    /\ attestCall.err = ""
    /\ \E id \in AttestationIdSpace :
          LET att == attestations[id]
          IN /\ att.status = "Withdrawn"
             /\ att.challenger = ZeroAddress
             /\ att.bondAmount = 0
             /\ bondBalance[att.attester] = BondFunds
             /\ bondBalance[RegistryContract] = 0

\* the status changes the lifecycle allows
StatusTransitions ==
    {<<"Pending", "Challenged">>, <<"Pending", "Validated">>,
     <<"Challenged", "Validated">>, <<"Challenged", "Slashed">>,
     <<"Validated", "Withdrawn">>}

\* the statuses challenge, arbitrate, validate and withdrawBond start from
StatusBefore(op) ==
    IF op = "challenge" THEN {"Pending"}
    ELSE IF op = "arbitrate" THEN {"Challenged"}
    ELSE IF op = "validate" THEN {"Pending"}
    ELSE {"Validated"}

\* C28: in every step the status of an attestation that exists stays as it is
\* or changes along Pending->Challenged, Pending->Validated,
\* Challenged->Validated, Challenged->Slashed or Validated->Withdrawn; the
\* status of a Slashed or Withdrawn attestation never changes; challenge,
\* arbitrate, validate and withdrawBond attempted on a status they do not
\* start from fail and change nothing.
C28_Lifecycle ==
    [][/\ \A id \in AttestationIdSpace :
            LET before == attestations[id].status
                after == attestations'[id].status
            IN attestations[id].timestamp # 0
                  => /\ attestations'[id].timestamp # 0
                     /\ after = before \/ <<before, after>> \in StatusTransitions
                     /\ before \in {"Slashed", "Withdrawn"} => after = before
       /\ \A caller \in AttestCallers, id \in AttestationIdSpace :
            LET before == attestations[id].status
            IN /\ (Challenge(caller, id, ReasonHash) /\ before \notin StatusBefore("challenge"))
                     => AttestRejected
               /\ \A challengeSucceeded \in BOOLEAN :
                     (Arbitrate(caller, id, challengeSucceeded)
                         /\ before \notin StatusBefore("arbitrate"))
                        => AttestRejected
               /\ (Validate(caller, id) /\ before \notin StatusBefore("validate"))
                     => AttestRejected
               /\ (WithdrawBond(caller, id) /\ before \notin StatusBefore("withdrawBond"))
                     => AttestRejected]_vars

\* an operation was refused on an attestation in a terminal status
C28_Witness ==
    /\ attestCall.err \in {"Not challengeable", "Not in challenge", "Not pending",
                           "Not validated"}
    /\ \E id \in AttestationIdSpace :
          /\ attestations[id].timestamp # 0
          /\ attestations[id].status \in {"Slashed", "Withdrawn"}

\* C29: challenge, arbitrate, validate and withdrawBond called with an id
\* submitAttestation never created fail and change no attestation record and
\* no statistics counter.
C29_UnknownIdRejected ==
    [][\A caller \in AttestCallers, id \in AttestationIdSpace :
          (/\ attestations[id].timestamp = 0
           /\ \/ Challenge(caller, id, ReasonHash)
              \/ \E challengeSucceeded \in BOOLEAN : Arbitrate(caller, id, challengeSucceeded)
              \/ Validate(caller, id)
              \/ WithdrawBond(caller, id))
             => AttestRejected]_vars

----------------------------------------------------------------------------
(* Properties of the MerkleGenerator *)

\* C30: for every non-empty reward list with unique addresses and every entry
\* (address, amount) of it, verify(generate(entries).root, address, amount,
\* getProof(result, address)) returns true; checked on the roots, amounts and
\* proofs of the claims presented to the distributor.
C30_VerifyGenerated ==
    \A rewards \in RewardLists :
       \A i \in 1..Len(rewards) :
          LET result == Generate(rewards)
              address == rewards[i].address
              amount == rewards[i].amount
          IN (/\ pending.op = "claim"
              /\ pending.account = address
              /\ CallAmount = amount
              /\ CallRoot = result.root
              /\ HasProof(result, address)
              /\ CallProof = GetProof(result, address))
                => Verify(result.root, address, amount, CallProof)

----------------------------------------------------------------------------
(* Properties of the MerkleGenerator on its own inputs *)

\* the entry of the generated list that the verify call names, if any
VerifiedEntries ==
    {i \in 1..Len(genRewards) :
        /\ genRewards[i].address = genVerify.address
        /\ genVerify.proof = GetProof(genResult, genVerify.address)}

\* C31: verify, called with the root of a generated tree, the address and the
\* proof of one of its entries and an amount other than the entry's, returns
\* false
C31_WrongAmountRejected ==
    genVerify.op = "verify"
        => \A i \in VerifiedEntries :
              genVerify.amount # genRewards[i].amount => genVerify.ret = FALSE

C31_Witness ==
    /\ genVerify.op = "verify"
    /\ Len(genRewards) = NumRewardAccounts
    /\ \E i \in VerifiedEntries : genVerify.amount = genRewards[i].amount + 1
    /\ genVerify.ret = FALSE

\* the lists that hold the entries of rewards in another order
PermutationsOf(rewards) ==
    {[i \in 1..Len(rewards) |-> rewards[f[i]]] :
        f \in {g \in [1..Len(rewards) -> 1..Len(rewards)] :
                  \A i, j \in 1..Len(rewards) : i # j => g[i] # g[j]}}

\* C32: generate returns the same root for every order of the same entries
C32_OrderIndependentRoot ==
    \A rewards \in PermutationsOf(genRewards) : Generate(rewards).root = genResult.root

C32_Witness ==
    /\ Len(genRewards) = NumRewardAccounts
    /\ genResult.root # ZeroHash
    /\ \E rewards \in PermutationsOf(genRewards) : rewards # genRewards

----------------------------------------------------------------------------
(* Properties of the access control of the contracts *)

\* C33: arbitrate by a caller without ARBITER_ROLE, finalizeEpoch and
\* setMerkleRoot by a caller without OPERATOR_ROLE and recordReceipt by a
\* caller without EMITTER_ROLE fail and change no state; validate and
\* advanceEpoch do for every caller what they do for one
C33_RoleReserved ==
    [][/\ \A caller \in Arbiters \ ArbiterRole, attestationId \in AttestationIdSpace,
             challengeSucceeded \in BOOLEAN :
               Arbitrate(caller, attestationId, challengeSucceeded)
                  => /\ attestCall'.err = "AccessControlUnauthorizedAccount"
                     /\ UNCHANGED <<attestState, attestConfig>>
       /\ \A caller \in EpochCallers \ EpochOperatorRole, epochId \in EpochIds,
             settlement \in Settlements :
               FinalizeEpoch(caller, epochId, settlement[1], settlement[2])
                  => /\ epochCall'.err = "AccessControlUnauthorizedAccount"
                     /\ UNCHANGED epochState
       /\ \A caller \in EpochCallers \ OperatorRole, epochId \in Epochs, token \in Tokens,
             settlement \in Settlements :
               SetMerkleRoot(caller, epochId, token, settlement[1])
                  => /\ last'.err = "AccessControlUnauthorizedAccount"
                     /\ UNCHANGED ledger
       /\ \A caller \in RegistryCallers \ EmitterRole, paymentId \in PaymentIds,
             payment \in Payments, epochId \in ReceiptEpochs, token \in Tokens :
               RecordReceipt(caller, paymentId, 1, 2, Admin, token, payment[1],
                             payment[2], epochId, ZeroHash)
                  => /\ registryCall'.err = "AccessControlUnauthorizedAccount"
                     /\ UNCHANGED registryState
       /\ \A caller \in AttestCallers, attestationId \in AttestationIdSpace :
               Validate(caller, attestationId)
                  => /\ attestCall'.err # "AccessControlUnauthorizedAccount"
                     /\ \A other \in AttestCallers : Validate(other, attestationId)
       /\ \A caller \in EpochCallers :
               AdvanceEpoch(caller)
                  => /\ epochCall'.err # "AccessControlUnauthorizedAccount"
                     /\ \A other \in EpochCallers : AdvanceEpoch(other)
      ]_vars

\* arbitrate of a challenged attestation was refused to a caller without the role
C33_Witness ==
    /\ attestCall = AttestCall("arbitrate", "AccessControlUnauthorizedAccount")
    /\ \E attestationId \in AttestationIdSpace :
          attestations[attestationId].status = "Challenged"

----------------------------------------------------------------------------
(* Properties of EpochService.settleEpoch *)

\* C34: once a run of settleEpoch has ended, an epoch is finalized exactly
\* when the distributor holds the epoch's root for the token: both changes
\* were made or neither
C34_SettleAllOrNothing ==
    settling = <<>>
        => \A epochId \in Epochs, token \in Tokens :
              epochs[epochId].finalized
                 <=> /\ epochMerkleRoots[<<epochId, token>>] # ZeroHash
                     /\ epochMerkleRoots[<<epochId, token>>] = epochs[epochId].merkleRoot

----------------------------------------------------------------------------
(* Properties of the Epoch State Machine fed by the MerkleGenerator *)

\* the epoch the machine is in has ended and is not finalized
EndedUnfinalized == CanAdvanceEpoch /\ ~epochs[currentEpochId].finalized

\* C35: generate of no rewards returns the zero root, no proofs and no
\* entries; finalizeEpoch with that root fails and changes no epoch record,
\* "Invalid merkle root" is the answer to that root only, and advanceEpoch
\* succeeds only from an epoch finalized with another root
C35_EmptyRootBlocksEpoch ==
    /\ [](Generate(<<>>) = [root |-> ZeroHash, proofs |-> <<>>, entries |-> <<>>])
    /\ [][/\ \A c \in EpochCallers, e \in EpochIds, st \in Settlements :
                FinalizeEpoch(c, e, st[1], st[2]) =>
                  /\ st[1] = Generate(<<>>).root
                        => /\ epochCall'.err # ""
                           /\ UNCHANGED epochState
                           /\ (c \in EpochOperatorRole /\ e = currentEpochId
                                 /\ EndedUnfinalized)
                                => (epochCall'.err = "Invalid merkle root"
                                      /\ EndedUnfinalized')
                  /\ epochCall'.err = "Invalid merkle root"
                        => st[1] = Generate(<<>>).root
          /\ \A c \in EpochCallers :
                (AdvanceEpoch(c) /\ epochCall'.err = "")
                   => /\ epochs[currentEpochId].finalized
                      /\ epochs[currentEpochId].merkleRoot # Generate(<<>>).root
          /\ \A c \in EpochCallers :
                (AdvanceEpoch(c) /\ EndedUnfinalized)
                   => epochCall'.err = "Current epoch not finalized yet"]_vars

\* an ended epoch was refused the root of the empty reward set and is still
\* not finalized
C35_Witness ==
    /\ epochCall.op = "finalizeEpoch"
    /\ epochCall.err = "Invalid merkle root"
    /\ EndedUnfinalized
    /\ currentEpochId > 1

\* C36: finalizeEpoch with an epochId outside 1..currentEpochId fails and
\* leaves every epoch record as it was
C36_FinalizeCreatedOnly ==
    [][\A c \in EpochCallers, e \in EpochIds, st \in Settlements :
          (FinalizeEpoch(c, e, st[1], st[2]) /\ e \notin 1..currentEpochId)
             => /\ epochCall'.err # ""
                /\ UNCHANGED epochs]_vars

----------------------------------------------------------------------------
(* Properties of the bonds and the counters of the AttestationRegistry *)

\* the bond a record keeps in escrow
EscrowedBond(attestationId) ==
    IF attestations[attestationId].status \in {"Pending", "Challenged", "Validated"}
    THEN attestations[attestationId].bondAmount
    ELSE 0

RECURSIVE SumEscrowed(_)
SumEscrowed(ids) ==
    IF ids = {} THEN 0
    ELSE LET id == CHOOSE id \in ids : TRUE
         IN EscrowedBond(id) + SumEscrowed(ids \ {id})

AttestationsOf(attester, statuses) ==
    {id \in AttestationIdSpace :
        /\ Created(id)
        /\ attestations[id].attester = attester
        /\ attestations[id].status \in statuses}

\* C38: attesterValidCount[a] is the number of a's attestations that are
\* Validated or Withdrawn, attesterSlashCount[a] the number that are Slashed,
\* and challengerWinCount[c] the number of Slashed attestations challenged by c
C38_CountersMatchRecords ==
    \A a \in StatAddresses :
        /\ attesterValidCount[a]
              = Cardinality(AttestationsOf(a, {"Validated", "Withdrawn"}))
        /\ attesterSlashCount[a] = Cardinality(AttestationsOf(a, {"Slashed"}))
        /\ challengerWinCount[a]
              = Cardinality({id \in AttestationIdSpace :
                                /\ Created(id)
                                /\ attestations[id].status = "Slashed"
                                /\ attestations[id].challenger = a})

\* the attestation was submitted with a bond that is still in escrow
BondInEscrow(attestationId) ==
    /\ Created(attestationId)
    /\ EscrowedBond(attestationId) > 0

\* the attestation is Slashed or Withdrawn and the registry holds nothing for it
BondReleased(attestationId) ==
    /\ attestations[attestationId].status \in {"Slashed", "Withdrawn"}
    /\ bondBalance[RegistryContract] = SumEscrowed(AttestationIdSpace \ {attestationId})

\* C39: under fair scheduling of the clock, of validate and withdrawBond by
\* the attester and of arbitrate by the arbiter, every attestation with a bond
\* in escrow eventually is Slashed or Withdrawn with the bond paid out
C39_BondEventuallyReleased ==
    \A attestationId \in AttestationIdSpace :
        BondInEscrow(attestationId) ~> BondReleased(attestationId)

\* a challenged attestation, upheld by the arbiter, was withdrawn
C39_Witness ==
    \E attestationId \in AttestationIdSpace :
        /\ attestations[attestationId].status = "Withdrawn"
        /\ attestations[attestationId].challenger # ZeroAddress
        /\ bondBalance[RegistryContract] = 0

----------------------------------------------------------------------------
(* Properties of the XsrnSessionManager *)

\* C40: no two PaymentExecuted events carry the same session and paymentId
\* (an authorization is executed at most once), and every payment executed
\* is one of an active, unexpired session, within its single limit and within
\* its daily limit for the day
C40_ExecutedAtMostOnce ==
    /\ [](\A i, j \in 1..Len(payments) :
             (payments[i][1] = payments[j][1] /\ payments[i][4] = payments[j][4])
                => i = j)
    /\ [][\A caller \in SessionCallers, sessionId \in SessionIdSpace, to \in Payees,
            amount \in PaymentAmounts, paymentId \in SessionPaymentIds :
              \A signature \in Signatures(sessionId, to, paymentId) :
                (/\ ExecuteWithSession(caller, sessionId, to, amount, paymentId, signature)
                 /\ sessionCall'.err = "")
                   => /\ sessions[sessionId].isActive
                      /\ sessions[sessionId].expiry > now
                      /\ amount <= sessions[sessionId].singleLimit
                      /\ sessions'[sessionId].usedToday <= sessions[sessionId].dailyLimit
                      /\ signature = Authorization(sessions[sessionId].signer, sessionId,
                                                   to, amount, paymentId)]_vars

====
